---- MODULE Spec2Model ----
(***************************************************************************)
(* CalDAV VTODO server (hono-vtodo): the protocol engine of                *)
(* src/caldav/handlers.ts over the storage layer, the multistatus builder  *)
(* and the ctag trigger of db/schema.sql.                                  *)
(*                                                                         *)
(* tasks is caldav_tasks, deletions is caldav_task_deletions, and meta     *)
(* holds caldav_labels and the three child tables of a task that           *)
(* hydrateTaskMeta reads: caldav_task_labels, caldav_task_reminders and    *)
(* caldav_task_relations.                                                  *)
(*                                                                         *)
(* Time is in epoch milliseconds.  One clock serves the worker's           *)
(* `new Date()` and the database's now(); inside a transaction now() is    *)
(* the instant of BEGIN.  Row ids are opaque: only their equality is read  *)
(* by the code, so a new row takes the least id nobody holds.              *)
(*                                                                         *)
(* Spec serves one request at a time, and a request that commits a         *)
(* transaction begins it at a later clock reading than the commit before.  *)
(* SpecConc interleaves the transactions of two connections.               *)
(***************************************************************************)
EXTENDS Integers, Sequences, FiniteSets, TLC

VARIABLES now, projects, tasks, deletions, meta, tx, resp

vars == <<now, projects, tasks, deletions, meta, tx, resp>>

(***************************************************************************)
(* Bounds of the model.                                                    *)
(***************************************************************************)
\* steps of the clock
MaxTicks == 3
\* href elements in one calendar-multiget body
MaxHrefs == 1
\* connections (withDb opens one per request) that run a transaction
\* alongside each other in SpecConc
MaxConns == 2

(***************************************************************************)
(* The universe of the model.                                              *)
(***************************************************************************)
Null == "null"
\* an optional value is the empty set or a singleton
None == {}
Some(x) == {x}
The(s) == CHOOSE x \in s : TRUE

Users == {"alice", "bob"}
\* the Authorization headers a request may carry: the Basic credential of a
\* user, a well-formed one that matches no token, one whose payload is not
\* base64, and none
Creds == {"alice", "bob", "wrong", "garbled", Null}
Projects == {1, 2}
\* the project ids a URL may name: those of the projects and one of no project
ProjectIds == Projects \cup {3}
OwnerOf == [p \in Projects |-> IF p = 2 THEN "bob" ELSE "alice"]
\* "a" and "A" differ only in letter case
Uids == {"a", "A"}
\* the instants the clock shows, in epoch milliseconds; the projects were
\* provisioned at the first
Instants == {1000 + 400 * k : k \in 0..MaxTicks}
StartTime == CHOOSE t \in Instants : \A u \in Instants : t <= u
\* LAST-MODIFIED / DTSTAMP values a payload may carry (iCalendar DATE-TIME
\* has whole seconds)
PayloadTimes == {1000, 2000}
Conns == 1..MaxConns

Max(S) == CHOOSE x \in S : \A y \in S : y <= x

(***************************************************************************)
(* db/schema.sql                                                           *)
(***************************************************************************)
\* extract(epoch from now())::bigint * 1000: the cast rounds to whole seconds
CtagOf(t) == ((t + 500) \div 1000) * 1000

\* function update_project_ctag(), fired per row by the three triggers
update_project_ctag(projs, p, txNow) ==
    [projs EXCEPT ![p] = [@ EXCEPT !.ctag = CtagOf(txNow), !.updatedAt = txNow]]

\* caldav_tasks.uid without the unique constraint
UidUnique_None(rows, uid) == TRUE

\* caldav_tasks.uid is declared unique over the whole table
UidUnique(rows, uid) == \A t \in rows : t.uid # uid

(***************************************************************************)
(* caldav/storage.ts                                                       *)
(***************************************************************************)
getProjectById(userId, p) ==
    IF p \in Projects /\ projects[p].ownerId = userId THEN Some(p) ELSE None

\* order by id asc
RECURSIVE ProjectsFrom(_, _)
ProjectsFrom(userId, p) ==
    IF p \notin Projects THEN <<>>
    ELSE (IF projects[p].ownerId = userId THEN <<p>> ELSE <<>>)
         \o ProjectsFrom(userId, p + 1)

\* the listing without the owner_id filter
getProjectsForUser_AnyOwner(userId) == [i \in 1..Cardinality(Projects) |-> i]

\* the select of getTasksForProject without `where project_id = $1`
getTasksForProject_All(rows, p) == rows

getProjectsForUser(userId) == ProjectsFrom(userId, 1)

getTasksForProject(rows, p) == {t \in rows : t.projectId = p}

\* where project_id = $1 and uid = $2 (text equality, case sensitive)
getTaskByUid(rows, p, uid) == {t \in rows : t.projectId = p /\ t.uid = uid}

getDeletedTasksForProject(dels, p) == {d \in dels : d.projectId = p}

\* the ids some open transaction still refers to
HeldIds ==
    UNION {{t.id : t \in tx[c].existing} :
              c \in {k \in Conns : "existing" \in DOMAIN tx[k]}}

FreshId(rows) ==
    LET used == {t.id : t \in rows} \cup HeldIds
    IN CHOOSE i \in 1..(Cardinality(used) + 1) :
          i \notin used /\ \A j \in 1..(i - 1) : j \in used

\* the child rows of a task, as hydrateTaskMeta reads them
LabelsOf(m, taskId) ==
    {l.title : l \in {x \in m.labels :
                        \E tl \in m.task_labels :
                           tl.taskId = taskId /\ tl.labelId = x.id}}
RemindersOf(m, taskId) ==
    {r.reminder : r \in {x \in m.task_reminders : x.taskId = taskId}}
RelationsOf(m, taskId) ==
    {r.relation : r \in {x \in m.task_relations : x.taskId = taskId}}

\* caldav_labels.id is a bigserial
FreshLabelId(labelRows) == Max({l.id : l \in labelRows} \cup {0}) + 1

\* the elements of a list
Range(s) == {s[i] : i \in DOMAIN s}

\* the loop of upsertLabels over the labels of the input, in order: a title
\* the map has gives its id, any other title is inserted, and the map is not
\* written to.  Result: the label table and the ids to link, in order.
RECURSIVE UpsertLoop(_, _, _, _, _)
UpsertLoop(labelRows, userId, map, titles, result) ==
    IF titles = <<>> THEN [labels |-> labelRows, ids |-> result]
    ELSE IF Head(titles) \in DOMAIN map
    THEN UpsertLoop(labelRows, userId, map, Tail(titles),
                    Append(result, map[Head(titles)]))
    ELSE LET id == FreshLabelId(labelRows) IN
         UpsertLoop(labelRows \cup {[id |-> id, ownerId |-> userId,
                                     title |-> Head(titles)]},
                    userId, map, Tail(titles), Append(result, id))

\* upsertLabels: select id, title from caldav_labels where owner_id = $1 and
\* title = any($2), the rows made a Map from title to id (of two rows with
\* one title the map keeps one; here the newer), then the loop
upsertLabels(labelRows, userId, titles) ==
    LET existing == {l \in labelRows :
                       l.ownerId = userId /\ l.title \in Range(titles)}
        map == [t \in {l.title : l \in existing} |->
                  Max({l.id : l \in {x \in existing : x.title = t}})]
    IN UpsertLoop(labelRows, userId, map, titles, <<>>)

\* caldav_task_labels: primary key (task_id, label_id); the inserts of
\* replaceTaskLabels pass it when no label id comes twice
LabelLinksUnique(ids) ==
    \A i, j \in DOMAIN ids : ids[i] = ids[j] => i = j

\* replaceTaskLabels: delete from caldav_task_labels where task_id = $1, then
\* one insert per label
replaceTaskLabels(rows, taskId, ids) ==
    {r \in rows : r.taskId # taskId}
        \cup {[taskId |-> taskId, labelId |-> i] : i \in Range(ids)}

\* the inserts of replaceTaskReminders without the delete before them
replaceTaskReminders_Merge(rows, taskId, reminders) ==
    rows \cup {[taskId |-> taskId, reminder |-> x] : x \in reminders}

\* replaceTaskReminders: delete the task's rows, then one insert per reminder
replaceTaskReminders(rows, taskId, reminders) ==
    {r \in rows : r.taskId # taskId}
        \cup {[taskId |-> taskId, reminder |-> x] : x \in reminders}

\* replaceTaskRelations: delete the task's rows, then one insert per relation
replaceTaskRelations(rows, taskId, relations) ==
    {r \in rows : r.taskId # taskId}
        \cup {[taskId |-> taskId, relation |-> x] : x \in relations}

\* the four statements createTask and updateTask run after the task row:
\* upsertLabels, replaceTaskLabels, replaceTaskReminders, replaceTaskRelations
ReplaceMeta(m, userId, taskId, input) ==
    LET up == upsertLabels(m.labels, userId, input.labels)
    IN [labels |-> up.labels,
        task_labels |-> replaceTaskLabels(m.task_labels, taskId, up.ids),
        task_reminders |-> replaceTaskReminders(m.task_reminders, taskId,
                                                input.reminders),
        task_relations |-> replaceTaskRelations(m.task_relations, taskId,
                                                input.relations)]

\* the child rows of a task removed (deleteTask, and on delete cascade)
DeleteMeta(m, taskId) ==
    [m EXCEPT !.task_labels = {r \in @ : r.taskId # taskId},
              !.task_reminders = {r \in @ : r.taskId # taskId},
              !.task_relations = {r \in @ : r.taskId # taskId}]

\* the row createTask inserts: updatedAt = input.updatedAt ?? now
InsertedRow(rows, input, jsNow) ==
    [id |-> FreshId(rows), projectId |-> input.projectId, uid |-> input.uid,
     description |-> input.description,
     updatedAt |-> IF input.updatedAt # None THEN The(input.updatedAt) ELSE jsNow]

\* the row updateTask writes: updated_at = input.updatedAt ?? new Date()
UpdatedRow(old, input, jsNow) ==
    [old EXCEPT !.description = input.description,
                !.updatedAt = IF input.updatedAt # None
                              THEN The(input.updatedAt) ELSE jsNow]

\* whether the child statements of createTask and updateTask go through:
\* the inserts of replaceTaskLabels are the ones that can fail
ChildrenOk(m, userId, input) ==
    LabelLinksUnique(upsertLabels(m.labels, userId, input.labels).ids)

\* createTask: BEGIN; insert; the child rows; COMMIT, or ROLLBACK and rethrow
\* when a statement fails.  Result: the tables after it and the task returned
\* (None when it threw).
createTask(rows, projs, m, userId, input, jsNow, txNow) ==
    IF ~UidUnique(rows, input.uid) \/ ~ChildrenOk(m, userId, input)
    THEN [tasks |-> rows, projects |-> projs, meta |-> m, task |-> None]
    ELSE LET row == InsertedRow(rows, input, jsNow)
         IN [tasks |-> rows \cup {row},
             projects |-> update_project_ctag(projs, input.projectId, txNow),
             meta |-> ReplaceMeta(m, userId, row.id, input),
             task |-> Some(row)]

\* updateTask: BEGIN; update ... where id = $13 returning *; the child rows;
\* COMMIT.  A vanished row makes normalizeTaskRow throw: ROLLBACK.
updateTask(rows, projs, m, userId, taskId, input, jsNow, txNow) ==
    IF (~\E t \in rows : t.id = taskId) \/ ~ChildrenOk(m, userId, input)
    THEN [tasks |-> rows, projects |-> projs, meta |-> m, task |-> None]
    ELSE LET old == CHOOSE t \in rows : t.id = taskId
             row == UpdatedRow(old, input, jsNow)
         IN [tasks |-> (rows \ {old}) \cup {row},
             projects |-> update_project_ctag(projs, old.projectId, txNow),
             meta |-> ReplaceMeta(m, userId, taskId, input),
             task |-> Some(row)]

\* a tombstone row for (project, uid), deleted_at = now()
InsertTombstone(dels, p, uid, txNow) ==
    {d \in dels : ~(d.projectId = p /\ d.uid = uid)}
        \cup {[projectId |-> p, uid |-> uid, deletedAt |-> txNow]}

\* deleteTaskByUid: false when no task (project, uid); else the task and its
\* children go, a tombstone is left and the triggers bump the ctag.
deleteTaskByUid(rows, dels, projs, m, p, uid, txNow) ==
    LET hit == getTaskByUid(rows, p, uid) IN
    IF hit = None
    THEN [tasks |-> rows, deletions |-> dels, projects |-> projs, meta |-> m,
          deleted |-> FALSE]
    ELSE [tasks |-> rows \ hit,
          deletions |-> InsertTombstone(dels, p, uid, txNow),
          projects |-> update_project_ctag(projs, p, txNow),
          meta |-> DeleteMeta(m, The(hit).id),
          deleted |-> TRUE]

(***************************************************************************)
(* caldav/handlers.ts: authentication and request parsing                  *)
(***************************************************************************)
\* parseBasicAuth: decodeBase64 is atob, which throws on a payload that is
\* not base64; nothing catches it and the request ends as 500
DecodeThrows(cred) == cred = "garbled"

\* requireAuth: the user a Basic credential authenticates, or null
requireAuth(cred) == IF cred \in Users THEN Some(cred) ELSE None

\* how a request fares at `const user = await requireAuth(c)`: 500 when it
\* throws, 401 when it returns null, 0 when it returns the user
AuthStatus(cred) ==
    IF DecodeThrows(cred) THEN 500
    ELSE IF requireAuth(cred) = None THEN 401 ELSE 0

\* buildUnauthorizedResponse: 401 with WWW-Authenticate: Basic realm="CalDAV";
\* the response records the verb (kind) and the credential of the request
buildUnauthorizedResponse(kind, cred) ==
    [kind |-> kind, status |-> 401, cred |-> cred, challenge |-> TRUE]

\* the response of a request that does not get past requireAuth
AuthResponse(kind, cred) ==
    IF AuthStatus(cred) = 401 THEN buildUnauthorizedResponse(kind, cred)
    ELSE [kind |-> kind, status |-> 500, cred |-> cred, challenge |-> FALSE]

\* the bodies parseVtodo throws on: text that ICAL.parse rejects, and a
\* calendar without a VTODO
BadBodies == {[ok |-> FALSE, fault |-> "syntax"],
              [ok |-> FALSE, fault |-> "no vtodo"]}

\* the 400 with "Invalid VTODO" whatever was thrown
ParserMessage_Generic(body) == "Invalid VTODO"

\* the message of the error parseVtodo throws: that of ICAL.parse, or
\* "VTODO not found"
ParserMessage(body) ==
    IF body.fault = "syntax" THEN "ParserError" ELSE "VTODO not found"

\* a PUT body: unparseable, or a VTODO with the properties the model follows:
\* LAST-MODIFIED/DTSTAMP, DESCRIPTION, CATEGORIES, VALARMs, RELATED-TOs.
\* Payloads carry a timestamp at most.
Payloads == [ok : {TRUE},
             updatedAt : {None} \cup {Some(t) : t \in PayloadTimes},
             description : {None}, labels : {<<>>}, reminders : {{}},
             relations : {{}}]
PutBodies == Payloads \cup BadBodies

\* a VTODO with none of these properties
BarePayload ==
    [ok |-> TRUE, updatedAt |-> None, description |-> None, labels |-> <<>>,
     reminders |-> {}, relations |-> {}]
BareBodies == {BarePayload} \cup BadBodies

\* RichPayloads carry no timestamp: a bare VTODO, two full ones that differ in
\* everything, and one with no DESCRIPTION and some children
RichPayloads ==
    {BarePayload,
     [ok |-> TRUE, updatedAt |-> None, description |-> Some("d1"),
      labels |-> <<"l1">>, reminders |-> {"r1"}, relations |-> {"u1"}],
     [ok |-> TRUE, updatedAt |-> None, description |-> Some("d2"),
      labels |-> <<"l2">>, reminders |-> {"r2"}, relations |-> {"u2"}],
     [ok |-> TRUE, updatedAt |-> None, description |-> None,
      labels |-> <<"l1">>, reminders |-> {}, relations |-> {"u2"}]}
RichBodies == RichPayloads \cup BadBodies

\* parseVtodo: description = String(getFirstPropertyValue("description") ?? ""),
\* never undefined
parseVtodo(body) ==
    [updatedAt |-> body.updatedAt,
     description |-> Some(IF body.description = None THEN ""
                          ELSE The(body.description)),
     labels |-> body.labels, reminders |-> body.reminders,
     relations |-> body.relations]

\* etag of a task: the quoted millisecond timestamp
etag(updatedAt) == updatedAt

(***************************************************************************)
(* PUT /dav/projects/:projectId/:uid                                       *)
(***************************************************************************)
\* taskInput: the parsed fields, the project and uid of the URL, and the
\* stored description when parsed.description is undefined
TaskInput(parsed, p, uid, existing) ==
    [projectId |-> p, uid |-> uid, updatedAt |-> parsed.updatedAt,
     description |-> IF existing # None /\ parsed.description = None
                     THEN The(existing).description
                     ELSE The(parsed.description),
     labels |-> parsed.labels, reminders |-> parsed.reminders,
     relations |-> parsed.relations]

\* the handler up to the storage transaction: the status it ends with, or 0
\* and what it resolved
PutResolve(rows, cred, p, uid, body) ==
    LET user == requireAuth(cred)
        project == IF user = None THEN None ELSE getProjectById(The(user), p)
    IN IF user = None THEN [status |-> 401]
       ELSE IF ~body.ok THEN [status |-> 400, message |-> ParserMessage(body)]
       ELSE IF project = None THEN [status |-> 404]
       ELSE [status |-> 0,
             existing |-> getTaskByUid(rows, p, uid),
             input |-> TaskInput(parseVtodo(body), p, uid,
                                 getTaskByUid(rows, p, uid))]

\* the response of a PUT that ends before the storage transaction: 400 with
\* the message of the parser (the response records the body), 404
PutRefusal(cred, p, uid, body, r) ==
    IF r.status = 400
    THEN [kind |-> "put", status |-> 400, cred |-> cred, project |-> p,
          uid |-> uid, body |-> body, message |-> r.message]
    ELSE [kind |-> "put", status |-> r.status, cred |-> cred, project |-> p,
          uid |-> uid]

\* existing ? updateTask(...) : createTask(...)
PutApply(rows, projs, m, userId, existing, input, jsNow, txNow) ==
    IF existing # None
    THEN updateTask(rows, projs, m, userId, The(existing).id, input, jsNow, txNow)
    ELSE createTask(rows, projs, m, userId, input, jsNow, txNow)

\* 200 or 201 with the ETag of the task returned; a storage error is not
\* caught by the handler and ends as 500
PutResponse(cred, p, uid, existing, out) ==
    IF out.task = None
    THEN [kind |-> "put", status |-> 500, cred |-> cred, project |-> p,
          uid |-> uid]
    ELSE [kind |-> "put", status |-> IF existing # None THEN 200 ELSE 201,
          cred |-> cred, project |-> p, uid |-> uid,
          etag |-> etag(The(out.task).updatedAt)]

(***************************************************************************)
(* REPORT /dav/projects/:projectId                                         *)
(***************************************************************************)
\* String.prototype.toUpperCase on the uids of the model
ToUpperCase(u) == IF u = "a" THEN "A" ELSE u

\* A REPORT body: whether it contains "sync-collection", whether it contains
\* "calendar-multiget", its sync-token element if any (the element's
\* namespace prefix, and the number its text reads as, None for text that
\* Number() turns into NaN), and the uid in the last path segment of each
\* href element ("" for an href that ends in a slash).
TokenPrefixes == {"d", "", "A"}
HrefUids == Uids \cup {""}

\* body.match(/<d:sync-token>([^<]+)<\/d:sync-token>/i) ??
\* body.match(/<sync-token>([^<]+)<\/sync-token>/i)
SyncTokenMatch(body) ==
    IF body.token # None /\ The(body.token).prefix \in {"d", "D", ""}
    THEN Some(The(body.token).value)
    ELSE None

\* since: the Date of the request token when it is finite and positive
Since(body) ==
    LET m == SyncTokenMatch(body)
        requestTokenMs == IF m = None THEN None ELSE The(m)
    IN IF requestTokenMs # None /\ The(requestTokenMs) > 0
       THEN requestTokenMs ELSE None

\* Math.max over project.updatedAt, every task and every tombstone
SyncToken(project, ts, dels) ==
    Max({project.updatedAt} \cup {t.updatedAt : t \in ts}
            \cup {d.deletedAt : d \in dels})

TasksForResponse(ts, since) ==
    IF since # None THEN {t \in ts : t.updatedAt > The(since)} ELSE ts

DeletedUids(dels, since) ==
    IF since # None
    THEN {d.uid : d \in {e \in dels : e.deletedAt > The(since)}}
    ELSE {d.uid : d \in dels}

\* new Map(tasks.map(task => [task.uid.toUpperCase(), task])): of two tasks
\* with one key the later in the list wins, and getTasksForProject lists by
\* updated_at desc, ties in any order
TaskMaps(ts) ==
    LET keys == {ToUpperCase(t.uid) : t \in ts}
        last(k) == {t \in ts : /\ ToUpperCase(t.uid) = k
                               /\ \A u \in ts : ToUpperCase(u.uid) = k
                                       => t.updatedAt <= u.updatedAt}
    IN {f \in [keys -> ts] : \A k \in keys : f[k] \in last(k)}

\* buildCalendarMultigetResponse: one sub-response per href with a uid
RECURSIVE MultigetResponses(_, _, _)
MultigetResponses(taskMap, deletedUids, hrefs) ==
    IF hrefs = <<>> THEN <<>>
    ELSE LET uid == Head(hrefs)
             deletedSet == {ToUpperCase(u) : u \in deletedUids}
             one == IF uid = "" THEN <<>>
                    ELSE IF ToUpperCase(uid) \in DOMAIN taskMap
                    THEN <<[href |-> uid, status |-> 200,
                            uid |-> taskMap[ToUpperCase(uid)].uid]>>
                    ELSE IF ToUpperCase(uid) \in deletedSet
                    THEN <<[href |-> uid, status |-> 410]>>
                    ELSE <<[href |-> uid, status |-> 404]>>
         IN one \o MultigetResponses(taskMap, deletedUids, Tail(hrefs))

\* handleReport with the sync-token taken over the rows of the delta only
ReportResponse_DeltaToken(p, body, taskMap) ==
    LET project == projects[p]
        ts == getTasksForProject(tasks, p)
        dels == getDeletedTasksForProject(deletions, p)
        since == Since(body)
        delta == {d \in dels : since = None \/ d.deletedAt > The(since)}
    IN IF body.sync
       THEN [kind |-> "report", status |-> 207, mode |-> "sync", project |-> p,
             token |-> body.token,
             tasks |-> {t.uid : t \in TasksForResponse(ts, since)},
             gone |-> DeletedUids(dels, since),
             syncToken |-> Some(SyncToken(project, TasksForResponse(ts, since),
                                          delta))]
       ELSE IF body.multiget
       THEN [kind |-> "report", status |-> 207, mode |-> "multiget", project |-> p,
             hrefs |-> body.hrefs,
             responses |-> MultigetResponses(taskMap, {d.uid : d \in dels},
                                             body.hrefs),
             syncToken |-> None]
       ELSE [kind |-> "report", status |-> 207, mode |-> "query", project |-> p,
             tasks |-> {t.uid : t \in ts},
             syncToken |-> None]

\* handleReport with the calendar-multiget branch tried before the
\* sync-collection branch
ReportResponse_MultigetFirst(p, body, taskMap) ==
    LET project == projects[p]
        ts == getTasksForProject(tasks, p)
        dels == getDeletedTasksForProject(deletions, p)
        since == Since(body)
    IN IF body.multiget
       THEN [kind |-> "report", status |-> 207, mode |-> "multiget", project |-> p,
             hrefs |-> body.hrefs,
             responses |-> MultigetResponses(taskMap, {d.uid : d \in dels},
                                             body.hrefs),
             syncToken |-> IF body.sync
                           THEN Some(SyncToken(project, ts, dels)) ELSE None]
       ELSE IF body.sync
       THEN [kind |-> "report", status |-> 207, mode |-> "sync", project |-> p,
             token |-> body.token,
             tasks |-> {t.uid : t \in TasksForResponse(ts, since)},
             gone |-> DeletedUids(dels, since),
             syncToken |-> Some(SyncToken(project, ts, dels))]
       ELSE [kind |-> "report", status |-> 207, mode |-> "query", project |-> p,
             tasks |-> {t.uid : t \in ts},
             syncToken |-> None]

\* handleReport once the project is resolved
ReportResponse(p, body, taskMap) ==
    LET project == projects[p]
        ts == getTasksForProject(tasks, p)
        dels == getDeletedTasksForProject(deletions, p)
        since == Since(body)
    IN IF body.sync
       THEN [kind |-> "report", status |-> 207, mode |-> "sync", project |-> p,
             token |-> body.token,
             tasks |-> {t.uid : t \in TasksForResponse(ts, since)},
             gone |-> DeletedUids(dels, since),
             syncToken |-> Some(SyncToken(project, ts, dels))]
       ELSE IF body.multiget
       THEN [kind |-> "report", status |-> 207, mode |-> "multiget", project |-> p,
             hrefs |-> body.hrefs,
             responses |-> MultigetResponses(taskMap, {d.uid : d \in dels},
                                             body.hrefs),
             syncToken |-> None]
       ELSE [kind |-> "report", status |-> 207, mode |-> "query", project |-> p,
             tasks |-> {t.uid : t \in ts},
             syncToken |-> None]

(***************************************************************************)
(* PROPFIND /dav/projects                                                  *)
(***************************************************************************)
\* the Depth headers a request may carry, Null for none
DepthHeaders == {Null, "0", "1", "1,noroot", "infinity"}

\* depthHeader.includes("1")
IncludesOne(depthHeader) == depthHeader \in {"1", "1,noroot"}

\* getDepthHeader: "0" without a header, "1" when it contains a 1, else "0"
getDepthHeader(depthHeader) ==
    IF depthHeader = Null THEN "0"
    ELSE IF IncludesOne(depthHeader) THEN "1" ELSE "0"

\* buildProjectCollectionResponse: the home-set entry, then at depth 1 one
\* entry per project of the list
buildProjectCollectionResponse(user, projs, depth) ==
    <<[coll |-> "home-set", id |-> 0]>>
        \o (IF depth = "1"
            THEN [i \in 1..Len(projs) |-> [coll |-> "project", id |-> projs[i]]]
            ELSE <<>>)

\* the response r with the credential of its request recorded
WithCred(r, cred) == r @@ [cred |-> cred]

\* the response r of a PUT with the body of its request recorded
WithBody(r, body) == r @@ [body |-> body]

\* a 404 of a route under /dav/projects/:projectId
NotFound(kind, cred, p) ==
    [kind |-> kind, status |-> 404, cred |-> cred, project |-> p]

Init ==
    /\ now = StartTime
    /\ projects = [p \in Projects |->
                     [ownerId |-> OwnerOf[p], name |-> "n0",
                      ctag |-> CtagOf(StartTime), updatedAt |-> StartTime]]
    /\ tasks = {}
    /\ deletions = {}
    /\ meta = [labels |-> {}, task_labels |-> {}, task_reminders |-> {},
               task_relations |-> {}]
    /\ tx = [c \in Conns |-> [phase |-> "idle"]]
    /\ resp = [kind |-> "none"]

Tick ==
    /\ \E t \in Instants :
          /\ now < t
          /\ \A u \in Instants : now < u => t <= u
          /\ now' = t
    /\ UNCHANGED <<projects, tasks, deletions, meta, tx, resp>>

\* the instant of the latest commit: every trigger stamps it on its project
LastCommit == Max({projects[p].updatedAt : p \in Projects})

\* a whole PUT request with one of the given bodies, served with no other
\* request in between
Put(bodies) ==
    \E cred \in Creds :
      IF AuthStatus(cred) # 0
      THEN /\ resp' = AuthResponse("put", cred)
           /\ UNCHANGED <<now, projects, tasks, deletions, meta, tx>>
      ELSE
        \E p \in ProjectIds, uid \in Uids, body \in bodies :
          LET r == PutResolve(tasks, cred, p, uid, body) IN
          IF r.status # 0
          THEN /\ resp' = PutRefusal(cred, p, uid, body, r)
               /\ UNCHANGED <<now, projects, tasks, deletions, meta, tx>>
          ELSE LET out == PutApply(tasks, projects, meta, The(requireAuth(cred)),
                                   r.existing, r.input, now, now) IN
               /\ LastCommit < now
               /\ tasks' = out.tasks
               /\ projects' = out.projects
               /\ meta' = out.meta
               /\ resp' = WithBody(PutResponse(cred, p, uid, r.existing, out), body)
               /\ UNCHANGED <<now, deletions, tx>>

\* 204 whatever deleteTaskByUid returned
DeleteStatus_Always204(deleted) == 204

\* 404 "Task not found" whatever deleteTaskByUid returned
DeleteStatus_Always404(deleted) == 404

\* 204 when deleteTaskByUid deleted the task, 404 "Task not found" when not
DeleteStatus(deleted) == IF deleted THEN 204 ELSE 404

\* a whole DELETE request
Delete ==
    \E cred \in Creds :
      IF AuthStatus(cred) # 0
      THEN /\ resp' = AuthResponse("delete", cred)
           /\ UNCHANGED <<now, projects, tasks, deletions, meta, tx>>
      ELSE
        \E p \in ProjectIds, uid \in Uids :
          IF getProjectById(The(requireAuth(cred)), p) = None
          THEN /\ resp' = NotFound("delete", cred, p)
               /\ UNCHANGED <<now, projects, tasks, deletions, meta, tx>>
          ELSE LET out == deleteTaskByUid(tasks, deletions, projects, meta, p,
                                          uid, now) IN
               /\ LastCommit < now
               /\ tasks' = out.tasks
               /\ deletions' = out.deletions
               /\ projects' = out.projects
               /\ meta' = out.meta
               /\ resp' = [kind |-> "delete", status |-> DeleteStatus(out.deleted),
                           cred |-> cred, project |-> p, uid |-> uid]
               /\ UNCHANGED <<now, tx>>

\* the bodies of sync-collection REPORTs: no token, or a token element with a
\* prefix and a text that is a timestamp of the project, 0, or no number
SyncBodies(p) ==
    LET stamps == {0, projects[p].updatedAt}
                    \cup {t.updatedAt : t \in getTasksForProject(tasks, p)}
                    \cup {d.deletedAt : d \in getDeletedTasksForProject(deletions, p)}
        tokens == {None} \cup {Some([prefix |-> "d", value |-> None])}
                    \cup {Some([prefix |-> x, value |-> Some(v)]) :
                            x \in TokenPrefixes, v \in stamps}
    IN [sync : {TRUE}, multiget : {FALSE}, token : tokens, hrefs : {<<>>}]

RECURSIVE SeqsUpTo(_, _)
SeqsUpTo(S, n) ==
    IF n = 0 THEN {<<>>}
    ELSE SeqsUpTo(S, n - 1)
           \cup {Append(q, x) : q \in {r \in SeqsUpTo(S, n - 1) : Len(r) = n - 1},
                                x \in S}

MultigetBodies ==
    [sync : {FALSE}, multiget : {TRUE}, token : {None},
     hrefs : SeqsUpTo(HrefUids, MaxHrefs)]

QueryBodies == {[sync |-> FALSE, multiget |-> FALSE, token |-> None, hrefs |-> <<>>]}

\* the three families of REPORT body
Families == {"sync", "multiget", "query"}

\* the REPORT bodies of the given families on project p
Bodies(families, p) ==
    (IF "sync" \in families THEN SyncBodies(p) ELSE {})
      \cup (IF "multiget" \in families THEN MultigetBodies ELSE {})
      \cup (IF "query" \in families THEN QueryBodies ELSE {})

\* a whole REPORT request with a body of one of the given families
Report(families) ==
    /\ \E cred \in Creds :
         IF AuthStatus(cred) # 0
         THEN resp' = AuthResponse("report", cred)
         ELSE \E p \in ProjectIds :
                IF getProjectById(The(requireAuth(cred)), p) = None
                THEN resp' = NotFound("report", cred, p)
                ELSE \E body \in Bodies(families, p),
                        taskMap \in TaskMaps(getTasksForProject(tasks, p)) :
                       resp' = WithCred(ReportResponse(p, body, taskMap), cred)
    /\ UNCHANGED <<now, projects, tasks, deletions, meta, tx>>

\* the REPORT bodies by what they contain: "sync-collection" or not,
\* "calendar-multiget" or not, a sync-token element or none, href elements
DispatchBodies ==
    [sync : BOOLEAN, multiget : BOOLEAN,
     token : {None, Some([prefix |-> "d", value |-> Some(StartTime)])},
     hrefs : SeqsUpTo(HrefUids, MaxHrefs)]

\* a whole REPORT request with any of these bodies; the response records
\* the body
ReportDispatch ==
    /\ \E cred \in Creds :
         IF AuthStatus(cred) # 0
         THEN resp' = AuthResponse("report", cred)
         ELSE \E p \in ProjectIds :
                IF getProjectById(The(requireAuth(cred)), p) = None
                THEN resp' = NotFound("report", cred, p)
                ELSE \E body \in DispatchBodies,
                        taskMap \in TaskMaps(getTasksForProject(tasks, p)) :
                       resp' = WithBody(
                                 WithCred(ReportResponse(p, body, taskMap), cred),
                                 body)
    /\ UNCHANGED <<now, projects, tasks, deletions, meta, tx>>

\* a whole PROPFIND on /dav/projects
PropfindProjects ==
    /\ \E cred \in Creds :
         IF AuthStatus(cred) # 0
         THEN resp' = AuthResponse("projects", cred)
         ELSE \E depthHeader \in DepthHeaders :
                LET user == The(requireAuth(cred))
                    depth == getDepthHeader(depthHeader)
                IN resp' = [kind |-> "projects", status |-> 207, cred |-> cred,
                            user |-> user, depth |-> depthHeader,
                            entries |-> buildProjectCollectionResponse(
                                            user, getProjectsForUser(user), depth)]
    /\ UNCHANGED <<now, projects, tasks, deletions, meta, tx>>

(***************************************************************************)
(* The other routes                                                        *)
(***************************************************************************)
\* PROPFIND /dav and PROPFIND /dav/principals/:username
PropfindEntry ==
    /\ \E cred \in Creds :
         IF AuthStatus(cred) # 0
         THEN resp' = AuthResponse("entry", cred)
         ELSE resp' = [kind |-> "entry", status |-> 207, cred |-> cred,
                       user |-> The(requireAuth(cred))]
    /\ UNCHANGED <<now, projects, tasks, deletions, meta, tx>>

PropfindPrincipal ==
    /\ \E cred \in Creds :
         IF AuthStatus(cred) # 0
         THEN resp' = AuthResponse("principal", cred)
         ELSE resp' = [kind |-> "principal", status |-> 207, cred |-> cred,
                       user |-> The(requireAuth(cred))]
    /\ UNCHANGED <<now, projects, tasks, deletions, meta, tx>>

\* handleProject, PROPFIND /dav/projects/:projectId: the collection, and at
\* depth 1 its tasks
PropfindProject ==
    /\ \E cred \in Creds :
         IF AuthStatus(cred) # 0
         THEN resp' = AuthResponse("project", cred)
         ELSE \E p \in ProjectIds, depthHeader \in DepthHeaders :
                IF getProjectById(The(requireAuth(cred)), p) = None
                THEN resp' = NotFound("project", cred, p)
                ELSE resp' = [kind |-> "project", status |-> 207, cred |-> cred,
                              project |-> p, name |-> projects[p].name,
                              depth |-> getDepthHeader(depthHeader),
                              tasks |-> IF getDepthHeader(depthHeader) = "1"
                                        THEN {t.uid : t \in getTasksForProject(tasks, p)}
                                        ELSE {}]
    /\ UNCHANGED <<now, projects, tasks, deletions, meta, tx>>

\* the displayname a PROPPATCH body sets, if any
DisplayNames == {None, Some("n1")}

\* updateProjectDisplayName: the name of the user's project set, the project
\* returned, null when the user has no such project
updateProjectDisplayName(projs, userId, p, displayName) ==
    IF getProjectById(userId, p) = None
    THEN [projects |-> projs, project |-> None]
    ELSE [projects |-> [projs EXCEPT ![p].name = displayName],
          project |-> Some(p)]

\* handleProjectPropPatch: the project is looked up only when the body sets
\* a displayname
PropPatch ==
    \E cred \in Creds :
      IF AuthStatus(cred) # 0
      THEN /\ resp' = AuthResponse("proppatch", cred)
           /\ UNCHANGED <<now, projects, tasks, deletions, meta, tx>>
      ELSE
        \E p \in ProjectIds, displayName \in DisplayNames :
          IF displayName # None
          THEN LET out == updateProjectDisplayName(projects, The(requireAuth(cred)),
                                                   p, The(displayName)) IN
               /\ projects' = out.projects
               /\ resp' = IF out.project = None THEN NotFound("proppatch", cred, p)
                          ELSE [kind |-> "proppatch", status |-> 207,
                                cred |-> cred, project |-> p,
                                name |-> Some(out.projects[p].name)]
               /\ UNCHANGED <<now, tasks, deletions, meta, tx>>
          ELSE /\ resp' = [kind |-> "proppatch", status |-> 207, cred |-> cred,
                           project |-> p, name |-> None]
               /\ UNCHANGED <<now, projects, tasks, deletions, meta, tx>>

\* the task as getTaskByUid returns it: the row and, hydrated, its children
Hydrate(m, t) ==
    [uid |-> t.uid, description |-> t.description, updatedAt |-> t.updatedAt,
     labels |-> LabelsOf(m, t.id), reminders |-> RemindersOf(m, t.id),
     relations |-> RelationsOf(m, t.id)]

\* GET and PROPFIND on /dav/projects/:projectId/:uid
TaskResponse(kind, status, cred, p, uid) ==
    LET user == The(requireAuth(cred))
        hit == getTaskByUid(tasks, p, uid)
    IN IF getProjectById(user, p) = None THEN NotFound(kind, cred, p)
       ELSE IF hit = None
       THEN [kind |-> kind, status |-> 404, cred |-> cred, project |-> p,
             uid |-> uid]
       ELSE [kind |-> kind, status |-> status, cred |-> cred, project |-> p,
             uid |-> uid, etag |-> etag(The(hit).updatedAt),
             task |-> Hydrate(meta, The(hit))]

Get ==
    /\ \E cred \in Creds :
         IF AuthStatus(cred) # 0
         THEN resp' = AuthResponse("get", cred)
         ELSE \E p \in ProjectIds, uid \in Uids :
                resp' = TaskResponse("get", 200, cred, p, uid)
    /\ UNCHANGED <<now, projects, tasks, deletions, meta, tx>>

PropfindTask ==
    /\ \E cred \in Creds :
         IF AuthStatus(cred) # 0
         THEN resp' = AuthResponse("task", cred)
         ELSE \E p \in ProjectIds, uid \in Uids :
                resp' = TaskResponse("task", 207, cred, p, uid)
    /\ UNCHANGED <<now, projects, tasks, deletions, meta, tx>>

Next == Tick \/ Put(PutBodies) \/ Delete \/ Report(Families) \/ PropfindProjects

Spec == Init /\ [][Next]_vars

\* the specifications of the single request families
NextSync == Tick \/ Put(PutBodies) \/ Delete \/ Report({"sync"})
SpecSync == Init /\ [][NextSync]_vars

NextMultiget == Tick \/ Put(PutBodies) \/ Delete \/ Report({"multiget"})
SpecMultiget == Init /\ [][NextMultiget]_vars

NextProjects == Tick \/ Put(PutBodies) \/ Delete \/ PropfindProjects
SpecProjects == Init /\ [][NextProjects]_vars

\* every protected route and verb
NextRoutes ==
    \/ Tick
    \/ Put(BareBodies)
    \/ Delete
    \/ Report({"query"})
    \/ PropPatch
    \/ Get
    \/ PropfindEntry
    \/ PropfindPrincipal
    \/ PropfindProjects
    \/ PropfindProject
    \/ PropfindTask
SpecRoutes == Init /\ [][NextRoutes]_vars

\* PUT with payloads that carry a description and children, DELETE and GET
NextChildren == Tick \/ Put(RichBodies) \/ Delete \/ Get
SpecChildren == Init /\ [][NextChildren]_vars

\* The same requests on a server with a past: before the first instant of the
\* clock alice PUT task a, with a description and children, into project 1
\* and DELETEd it, so a tombstone for (1, a) exists.
PastPut ==
    createTask({}, [p \in Projects |->
                      [ownerId |-> OwnerOf[p], name |-> "n0",
                       ctag |-> CtagOf(StartTime), updatedAt |-> StartTime]],
               [labels |-> {}, task_labels |-> {}, task_reminders |-> {},
                task_relations |-> {}],
               "alice",
               TaskInput(parseVtodo(CHOOSE b \in RichPayloads :
                                        b.description = Some("d1")),
                         1, "a", None),
               StartTime, StartTime)
PastDelete ==
    deleteTaskByUid(PastPut.tasks, {}, PastPut.projects, PastPut.meta, 1, "a",
                    StartTime)
InitDeleted ==
    /\ now = StartTime
    /\ tx = [c \in Conns |-> [phase |-> "idle"]]
    /\ projects = PastDelete.projects
    /\ tasks = PastDelete.tasks
    /\ deletions = PastDelete.deletions
    /\ meta = PastDelete.meta
    /\ resp = [kind |-> "none"]
SpecDeleted == InitDeleted /\ [][NextChildren]_vars

\* PUT with CATEGORIES: none, one title, one title twice, two titles
LabelPayloads ==
    {[BarePayload EXCEPT !.labels = l] :
        l \in {<<>>, <<"l1">>, <<"l1", "l1">>, <<"l1", "l2">>}}
NextLabels == Tick \/ Put(LabelPayloads) \/ Delete
SpecLabels == Init /\ [][NextLabels]_vars

(***************************************************************************)
(* Concurrent requests: each runs on a connection of its own, looks up     *)
(* what it needs, issues BEGIN, and commits later; the row lock the        *)
(* trigger takes on the project orders the writes as the commits.          *)
(***************************************************************************)
\* a PUT up to BEGIN: authenticated, parsed, project and task looked up
PutBegin ==
    \E c \in Conns, cred \in Users, p \in Projects, uid \in Uids, body \in Payloads :
        LET r == PutResolve(tasks, cred, p, uid, body) IN
        /\ tx[c].phase = "idle"
        /\ r.status = 0
        /\ tx' = [tx EXCEPT ![c] = [phase |-> "open", op |-> "put", cred |-> cred,
                                    p |-> p, uid |-> uid, existing |-> r.existing,
                                    input |-> r.input, jsNow |-> now,
                                    txNow |-> now]]
        /\ UNCHANGED <<now, projects, tasks, deletions, meta, resp>>

\* a DELETE up to BEGIN
DeleteBegin ==
    \E c \in Conns, cred \in Users, p \in Projects, uid \in Uids :
        /\ tx[c].phase = "idle"
        /\ getProjectById(cred, p) # None
        /\ tx' = [tx EXCEPT ![c] = [phase |-> "open", op |-> "delete", cred |-> cred,
                                    p |-> p, uid |-> uid, existing |-> None,
                                    txNow |-> now]]
        /\ UNCHANGED <<now, projects, tasks, deletions, meta, resp>>

\* the statements of an open transaction and its COMMIT (or ROLLBACK), and
\* the response; the connection is closed
Commit ==
    \E c \in Conns :
        /\ tx[c].phase = "open"
        /\ tx' = [tx EXCEPT ![c] = [phase |-> "closed"]]
        /\ IF tx[c].op = "put"
           THEN LET out == PutApply(tasks, projects, meta, tx[c].cred,
                                    tx[c].existing, tx[c].input,
                                    tx[c].jsNow, tx[c].txNow) IN
                /\ tasks' = out.tasks
                /\ projects' = out.projects
                /\ meta' = out.meta
                /\ resp' = PutResponse(tx[c].cred, tx[c].p, tx[c].uid,
                                       tx[c].existing, out)
                /\ UNCHANGED <<now, deletions>>
           ELSE LET out == deleteTaskByUid(tasks, deletions, projects, meta,
                                           tx[c].p, tx[c].uid, tx[c].txNow) IN
                /\ tasks' = out.tasks
                /\ deletions' = out.deletions
                /\ projects' = out.projects
                /\ meta' = out.meta
                /\ resp' = [kind |-> "delete", status |-> DeleteStatus(out.deleted),
                            cred |-> tx[c].cred, project |-> tx[c].p,
                            uid |-> tx[c].uid]
                /\ UNCHANGED now

(***************************************************************************)
(* A client that keeps project 1 in sync: it remembers the sync-token of   *)
(* its last sync-collection REPORT and presents it in the next one.  The   *)
(* session records, besides the token, the uids put or deleted since that  *)
(* REPORT and what the last REPORT listed.                                 *)
(***************************************************************************)
InitClient ==
    /\ now = StartTime
    /\ projects = [p \in Projects |->
                     [ownerId |-> OwnerOf[p], name |-> "n0",
                      ctag |-> CtagOf(StartTime), updatedAt |-> StartTime]]
    /\ tasks = {}
    /\ deletions = {}
    /\ meta = [labels |-> {}, task_labels |-> {}, task_reminders |-> {},
               task_relations |-> {}]
    /\ tx = [c \in Conns |-> [phase |-> "idle"]]
    /\ resp = [kind |-> "client", step |-> "start", syncToken |-> None,
               changed |-> {}, tasks |-> {}, gone |-> {}]

\* REPORT with <d:sync-token> holding the remembered token, if any
ClientReport ==
    /\ \E taskMap \in TaskMaps(getTasksForProject(tasks, 1)) :
         LET token == IF resp.syncToken = None THEN None
                      ELSE Some([prefix |-> "d", value |-> resp.syncToken])
             body == [sync |-> TRUE, multiget |-> FALSE, token |-> token,
                      hrefs |-> <<>>]
             r == ReportResponse(1, body, taskMap)
         IN resp' = [kind |-> "client", step |-> "report",
                     syncToken |-> r.syncToken, changed |-> {},
                     tasks |-> r.tasks, gone |-> r.gone]
    /\ UNCHANGED <<now, projects, tasks, deletions, meta, tx>>

\* a PUT into project 1 that is answered 200 or 201
ClientPut ==
    \E uid \in Uids, body \in Payloads :
       LET r == PutResolve(tasks, "alice", 1, uid, body)
           out == PutApply(tasks, projects, meta, "alice", r.existing, r.input,
                           now, now)
       IN /\ LastCommit < now
          /\ out.task # None
          /\ tasks' = out.tasks
          /\ projects' = out.projects
          /\ meta' = out.meta
          /\ resp' = [resp EXCEPT !.step = "put", !.changed = @ \cup {uid}]
          /\ UNCHANGED <<now, deletions, tx>>

\* a DELETE in project 1 that is answered 204
ClientDelete ==
    \E uid \in Uids :
       LET out == deleteTaskByUid(tasks, deletions, projects, meta, 1, uid, now)
       IN /\ LastCommit < now
          /\ out.deleted
          /\ tasks' = out.tasks
          /\ deletions' = out.deletions
          /\ projects' = out.projects
          /\ meta' = out.meta
          /\ resp' = [resp EXCEPT !.step = "delete", !.changed = @ \cup {uid}]
          /\ UNCHANGED <<now, tx>>

NextClient == Tick \/ ClientReport \/ ClientPut \/ ClientDelete
SpecClient == InitClient /\ [][NextClient]_vars

NextDispatch == Tick \/ Put(BareBodies) \/ Delete \/ ReportDispatch
SpecDispatch == Init /\ [][NextDispatch]_vars

NextListing ==
    Tick \/ Put(BareBodies) \/ Delete \/ Report({"query"}) \/ PropfindProject
SpecListing == InitDeleted /\ [][NextListing]_vars

NextConc == Tick \/ PutBegin \/ DeleteBegin \/ Commit
SpecConc == Init /\ [][NextConc]_vars

(***************************************************************************)
(* Statement by statement.  Every request has a connection of its own      *)
(* (withDb).  A mutation runs BEGIN, its statements one by one, and COMMIT *)
(* or, when a statement throws, ROLLBACK; a read runs each of its queries  *)
(* as a statement of its own.  The isolation level is READ COMMITTED: a    *)
(* statement sees what has been committed when it starts, and what its own *)
(* transaction wrote.  tasks, projects, meta and deletions are the rows as *)
(* stored, the writes of an open transaction included; the transaction     *)
(* keeps the rows as they were when it first wrote.                        *)
(* One user, one project and one uid: /dav/projects/1/a as alice.          *)
(***************************************************************************)
Stored ==
    [tasks |-> tasks, projects |-> projects, meta |-> meta,
     deletions |-> deletions]

\* the connections whose open transaction has written
Writers == {c \in Conns : tx[c].phase = "tx" /\ tx[c].undo # None}

\* what a statement of another connection sees: the rows without the writes
\* of the open transaction
Committed ==
    IF Writers = {} THEN Stored
    ELSE The(tx[CHOOSE c \in Writers : TRUE].undo)

\* no statement ever waits for a row lock
ProjectRowFree_NoLock(c, p) == TRUE

\* the first write of a transaction updates, inserts or deletes a task row and
\* fires update_project_ctag, which updates the row of the project: both rows
\* stay locked until COMMIT or ROLLBACK, and the first write of another
\* transaction on the project waits
ProjectRowFree(c, p) == \A k \in Writers \ {c} : tx[k].p # p

\* ROLLBACK that leaves the rows written so far
Rollback_KeepWrites(stored, undo) == stored

\* ROLLBACK: the rows are again as they were before the first write
Rollback(stored, undo) == IF undo = None THEN stored ELSE The(undo)

\* the bodies of the PUTs: two VTODOs that differ in every property
TxBodies == {b \in RichPayloads : b.description \in {Some("d1"), Some("d2")}}

\* a PUT up to BEGIN: authenticated, parsed, project and task looked up
TxPutBegin ==
    \E c \in Conns, body \in TxBodies :
        LET r == PutResolve(Committed.tasks, "alice", 1, "a", body) IN
        /\ tx[c].phase = "idle"
        /\ r.status = 0
        /\ tx' = [tx EXCEPT ![c] =
                    [phase |-> "tx", op |-> "put", pc |-> 0, cred |-> "alice",
                     p |-> 1, uid |-> "a", body |-> body,
                     existing |-> r.existing, input |-> r.input,
                     jsNow |-> now, txNow |-> now, undo |-> None,
                     taskId |-> 0, deleted |-> FALSE, seen |-> {}]]
        /\ UNCHANGED <<now, projects, tasks, deletions, meta, resp>>

\* a DELETE up to BEGIN
TxDeleteBegin ==
    \E c \in Conns :
        /\ tx[c].phase = "idle"
        /\ getProjectById("alice", 1) # None
        /\ tx' = [tx EXCEPT ![c] =
                    [phase |-> "tx", op |-> "delete", pc |-> 0,
                     cred |-> "alice", p |-> 1, uid |-> "a", body |-> None,
                     existing |-> None, input |-> None,
                     jsNow |-> now, txNow |-> now, undo |-> None,
                     taskId |-> 0, deleted |-> FALSE, seen |-> {}]]
        /\ UNCHANGED <<now, projects, tasks, deletions, meta, resp>>

\* the first statement of updateTask (update caldav_tasks ... where id = $13
\* returning *) or of createTask (insert into caldav_tasks ... returning *),
\* with the trigger it fires; not ok when it throws or returns no row
RowStatement(db, t) ==
    LET hit == IF t.existing # None
               THEN {r \in db.tasks : r.id = The(t.existing).id} ELSE {}
        ok == IF t.existing # None THEN hit # {}
              ELSE UidUnique(db.tasks, t.uid)
        row == IF t.existing # None
               THEN UpdatedRow(The(hit), t.input, t.jsNow)
               ELSE InsertedRow(db.tasks, t.input, t.jsNow)
    IN IF ~ok THEN [ok |-> FALSE, db |-> db, taskId |-> 0, deleted |-> FALSE]
       ELSE [ok |-> TRUE, taskId |-> row.id, deleted |-> FALSE,
             db |-> [db EXCEPT
                       !.tasks = (@ \ hit) \cup {row},
                       !.projects = update_project_ctag(@, t.p, t.txNow)]]

\* the statements after the row: 2 upsertLabels and replaceTaskLabels,
\* 3 replaceTaskReminders, 4 replaceTaskRelations
ChildStatement(db, t, k) ==
    LET up == upsertLabels(db.meta.labels, t.cred, t.input.labels)
        m == db.meta
    IN [ok |-> k # 2 \/ LabelLinksUnique(up.ids), taskId |-> t.taskId,
        deleted |-> FALSE,
        db |-> [db EXCEPT !.meta =
                  IF k = 2
                  THEN [m EXCEPT !.labels = up.labels,
                                 !.task_labels =
                                    replaceTaskLabels(@, t.taskId, up.ids)]
                  ELSE IF k = 3
                  THEN [m EXCEPT !.task_reminders =
                          replaceTaskReminders(@, t.taskId, t.input.reminders)]
                  ELSE [m EXCEPT !.task_relations =
                          replaceTaskRelations(@, t.taskId, t.input.relations)]]]

\* deleteTaskByUid, statement 1: delete from caldav_tasks where project_id and
\* uid match (the child rows go with it, on delete cascade) with the trigger
\* it fires; statement 2: the tombstone, with its trigger
DeleteStatement(db, t, k) ==
    LET hit == getTaskByUid(db.tasks, t.p, t.uid) IN
    IF k = 1
    THEN IF hit = None
         THEN [ok |-> TRUE, taskId |-> 0, deleted |-> FALSE, db |-> db]
         ELSE [ok |-> TRUE, taskId |-> The(hit).id, deleted |-> TRUE,
               db |-> [db EXCEPT
                         !.tasks = @ \ hit,
                         !.meta = DeleteMeta(@, The(hit).id),
                         !.projects = update_project_ctag(@, t.p, t.txNow)]]
    ELSE [ok |-> TRUE, taskId |-> t.taskId, deleted |-> TRUE,
          db |-> [db EXCEPT
                    !.deletions = InsertTombstone(@, t.p, t.uid, t.txNow),
                    !.projects = update_project_ctag(@, t.p, t.txNow)]]

\* statement k of the transaction t on the rows db
Statement(db, t, k) ==
    IF t.op = "delete" THEN DeleteStatement(db, t, k)
    ELSE IF k = 1 THEN RowStatement(db, t)
    ELSE ChildStatement(db, t, k)

\* the transaction has run its last statement
Done(t) ==
    t.pc = IF t.op = "put" THEN 4 ELSE IF t.deleted THEN 2 ELSE 1

\* the 500 of a mutation whose statement k threw
Failed(t, k) ==
    [kind |-> t.op, status |-> 500, cred |-> t.cred, project |-> t.p,
     uid |-> t.uid, body |-> t.body, failedAt |-> k]

\* the next statement of an open transaction.  When it throws, the catch
\* block issues ROLLBACK and rethrows: 500, connection closed.
TxStatement ==
    \E c \in Conns :
        LET t == tx[c]
            k == t.pc + 1
            out == Statement(Stored, t, k)
            back == Rollback(Stored, t.undo)
            after == IF out.ok THEN out.db ELSE back
        IN /\ t.phase = "tx"
           /\ ~Done(t)
           /\ k = 1 => ProjectRowFree(c, t.p)
           /\ tasks' = after.tasks
           /\ projects' = after.projects
           /\ meta' = after.meta
           /\ deletions' = after.deletions
           /\ IF out.ok
              THEN /\ tx' = [tx EXCEPT ![c] =
                               [t EXCEPT !.pc = k, !.taskId = out.taskId,
                                         !.deleted = out.deleted,
                                         !.undo = IF k = 1 THEN Some(Stored)
                                                  ELSE @]]
                   /\ UNCHANGED <<now, resp>>
              ELSE /\ tx' = [tx EXCEPT ![c] = [phase |-> "idle"]]
                   /\ resp' = Failed(t, k)
                   /\ UNCHANGED now

\* the next statement, or COMMIT, fails in the storage (connection lost,
\* statement refused): ROLLBACK, 500
TxAbort ==
    \E c \in Conns :
        LET t == tx[c]
            back == Rollback(Stored, t.undo)
        IN /\ t.phase = "tx"
           /\ tasks' = back.tasks
           /\ projects' = back.projects
           /\ meta' = back.meta
           /\ deletions' = back.deletions
           /\ tx' = [tx EXCEPT ![c] = [phase |-> "idle"]]
           /\ resp' = Failed(t, t.pc + 1)
           /\ UNCHANGED now

\* the other PUTs in flight on the task that t has just updated
Rivals(c) ==
    {k \in Conns \ {c} :
        /\ tx[k].phase = "tx" /\ tx[k].op = "put" /\ tx[k].existing # None
        /\ tx[c].op = "put" /\ tx[c].existing # None
        /\ tx[k].p = tx[c].p /\ tx[k].uid = tx[c].uid}

\* COMMIT and the response.  A PUT in flight on the same task notes the body
\* whose update was committed while it ran; the response of a PUT records
\* its body and the bodies noted.
TxCommit ==
    \E c \in Conns :
        LET t == tx[c] IN
        /\ t.phase = "tx"
        /\ Done(t)
        /\ tx' = [k \in Conns |->
                    IF k = c THEN [phase |-> "idle"]
                    ELSE IF k \in Rivals(c)
                    THEN [tx[k] EXCEPT !.seen = @ \cup {t.body}]
                    ELSE tx[k]]
        /\ resp' = IF t.op = "put"
                   THEN [kind |-> "put",
                         status |-> IF t.existing # None THEN 200 ELSE 201,
                         cred |-> t.cred, project |-> t.p, uid |-> t.uid,
                         etag |-> etag((CHOOSE r \in tasks :
                                           r.id = t.taskId).updatedAt),
                         body |-> t.body, seen |-> t.seen]
                   ELSE [kind |-> "delete", status |-> DeleteStatus(t.deleted),
                         cred |-> t.cred, project |-> t.p, uid |-> t.uid]
        /\ UNCHANGED <<now, projects, tasks, deletions, meta>>

\* GET up to the first query of getTaskByUid (select * from caldav_tasks
\* where project_id = $1 and uid = $2): 404, or the row, its children to come
ReadBegin ==
    \E c \in Conns :
        LET hit == getTaskByUid(Committed.tasks, 1, "a") IN
        /\ tx[c].phase = "idle"
        /\ getProjectById("alice", 1) # None
        /\ IF hit = None
           THEN /\ resp' = [kind |-> "get", status |-> 404, cred |-> "alice",
                            project |-> 1, uid |-> "a"]
                /\ UNCHANGED tx
           ELSE /\ tx' = [tx EXCEPT ![c] =
                            [phase |-> "read", pc |-> 1, cred |-> "alice",
                             p |-> 1, uid |-> "a", existing |-> hit,
                             task |-> [uid |-> The(hit).uid,
                                       description |-> The(hit).description,
                                       updatedAt |-> The(hit).updatedAt,
                                       labels |-> {}, reminders |-> {},
                                       relations |-> {}]]]
                /\ UNCHANGED resp
        /\ UNCHANGED <<now, projects, tasks, deletions, meta>>

\* the three queries of hydrateTaskMeta, one per step: labels, reminders,
\* relations; after the third the handler answers 200 with the task
ReadChildren ==
    \E c \in Conns :
        LET t == tx[c]
            id == The(t.existing).id
            m == Committed.meta
            task == IF t.pc = 1 THEN [t.task EXCEPT !.labels = LabelsOf(m, id)]
                    ELSE IF t.pc = 2
                    THEN [t.task EXCEPT !.reminders = RemindersOf(m, id)]
                    ELSE [t.task EXCEPT !.relations = RelationsOf(m, id)]
        IN /\ t.phase = "read"
           /\ IF t.pc < 3
              THEN /\ tx' = [tx EXCEPT ![c] = [t EXCEPT !.pc = @ + 1,
                                                        !.task = task]]
                   /\ UNCHANGED resp
              ELSE /\ tx' = [tx EXCEPT ![c] = [phase |-> "idle"]]
                   /\ resp' = [kind |-> "get", status |-> 200,
                               cred |-> t.cred, project |-> t.p, uid |-> t.uid,
                               etag |-> etag(task.updatedAt), task |-> task]
           /\ UNCHANGED <<now, projects, tasks, deletions, meta>>

\* the requests overlap within one reading of the clock
NextTx ==
    \/ TxPutBegin
    \/ TxDeleteBegin
    \/ TxStatement
    \/ TxAbort
    \/ TxCommit
    \/ ReadBegin
    \/ ReadChildren
\* the server some time after alice has PUT the task with the first body
LateTime == Max(Instants \ {Max(Instants)})
InitTx ==
    /\ now = LateTime
    /\ tx = [c \in Conns |-> [phase |-> "idle"]]
    /\ projects = PastPut.projects
    /\ tasks = PastPut.tasks
    /\ deletions = {}
    /\ meta = PastPut.meta
    /\ resp = [kind |-> "none"]
SpecTx == InitTx /\ [][NextTx]_vars

(***************************************************************************)
(* readBodyWithLimit: the requests of the three handlers that read a body, *)
(* with the size of the body and the Content-Length header                 *)
(***************************************************************************)
\* const MAX_BODY_SIZE = 256 * 1024
MAX_BODY_SIZE == 262144

\* the sizes of a body in bytes: empty, at the limit, two bytes over it
BodyBytes == {0, MAX_BODY_SIZE, MAX_BODY_SIZE + 2}

\* what reaches readBodyWithLimit: the Content-Length header (none with
\* chunked transfer, the byte count of the body, or a text that is no number),
\* the size of the body in bytes, and body.length, the number of UTF-16 code
\* units of the decoded text: the byte count for ASCII, half of it for a text
\* of two-byte characters
Envelopes ==
    {[header |-> h, bytes |-> b, units |-> IF wide THEN (b + 1) \div 2 ELSE b] :
        h \in {"none", "bytes", "text"}, b \in BodyBytes, wide \in BOOLEAN}

\* readBodyWithLimit: 413 when the header is present and parseInt gives NaN or
\* more than MAX_BODY_SIZE, 413 when body.length exceeds it, else 0 (the body)
readBodyWithLimit(e) ==
    IF e.header = "text" THEN 413
    ELSE IF e.header = "bytes" /\ e.bytes > MAX_BODY_SIZE THEN 413
    ELSE IF e.units > MAX_BODY_SIZE THEN 413
    ELSE 0

\* c.text("Request Entity Too Large", 413); the response records the sizes
TooLarge(kind, cred, e) ==
    [kind |-> kind, status |-> 413, cred |-> cred, envelope |-> e]

\* the response r with the sizes of the body of its request recorded
WithEnvelope(r, e) == r @@ [envelope |-> e]

\* the sized requests address alice's project or bob's
SizedProjects == {1, 2}

\* a whole PUT request, the size of its body included
PutSized ==
    \E cred \in Creds, e \in Envelopes :
      IF AuthStatus(cred) # 0
      THEN /\ resp' = AuthResponse("put", cred)
           /\ UNCHANGED <<now, projects, tasks, deletions, meta, tx>>
      ELSE IF readBodyWithLimit(e) # 0
      THEN /\ resp' = TooLarge("put", cred, e)
           /\ UNCHANGED <<now, projects, tasks, deletions, meta, tx>>
      ELSE
        \E p \in SizedProjects, uid \in {"a"}, body \in BareBodies :
          LET r == PutResolve(tasks, cred, p, uid, body) IN
          IF r.status # 0
          THEN /\ resp' = WithEnvelope(PutRefusal(cred, p, uid, body, r), e)
               /\ UNCHANGED <<now, projects, tasks, deletions, meta, tx>>
          ELSE LET out == PutApply(tasks, projects, meta, The(requireAuth(cred)),
                                   r.existing, r.input, now, now) IN
               /\ LastCommit < now
               /\ tasks' = out.tasks
               /\ projects' = out.projects
               /\ meta' = out.meta
               /\ resp' = WithEnvelope(WithBody(PutResponse(cred, p, uid,
                                                            r.existing, out),
                                                body), e)
               /\ UNCHANGED <<now, deletions, tx>>

\* a whole REPORT request (calendar-query), the size of its body included
ReportSized ==
    /\ \E cred \in Creds, e \in Envelopes :
         IF AuthStatus(cred) # 0
         THEN resp' = AuthResponse("report", cred)
         ELSE IF readBodyWithLimit(e) # 0
         THEN resp' = TooLarge("report", cred, e)
         ELSE \E p \in SizedProjects :
                IF getProjectById(The(requireAuth(cred)), p) = None
                THEN resp' = WithEnvelope(NotFound("report", cred, p), e)
                ELSE \E body \in QueryBodies,
                        taskMap \in TaskMaps(getTasksForProject(tasks, p)) :
                       resp' = WithEnvelope(
                                 WithCred(ReportResponse(p, body, taskMap), cred),
                                 e)
    /\ UNCHANGED <<now, projects, tasks, deletions, meta, tx>>

\* a whole PROPPATCH request, the size of its body included
PropPatchSized ==
    \E cred \in Creds, e \in Envelopes :
      IF AuthStatus(cred) # 0
      THEN /\ resp' = AuthResponse("proppatch", cred)
           /\ UNCHANGED <<now, projects, tasks, deletions, meta, tx>>
      ELSE IF readBodyWithLimit(e) # 0
      THEN /\ resp' = TooLarge("proppatch", cred, e)
           /\ UNCHANGED <<now, projects, tasks, deletions, meta, tx>>
      ELSE
        \E p \in SizedProjects, displayName \in DisplayNames :
          IF displayName # None
          THEN LET out == updateProjectDisplayName(projects, The(requireAuth(cred)),
                                                   p, The(displayName)) IN
               /\ projects' = out.projects
               /\ resp' = WithEnvelope(
                            IF out.project = None THEN NotFound("proppatch", cred, p)
                            ELSE [kind |-> "proppatch", status |-> 207,
                                  cred |-> cred, project |-> p,
                                  name |-> Some(out.projects[p].name)], e)
               /\ UNCHANGED <<now, tasks, deletions, meta, tx>>
          ELSE /\ resp' = WithEnvelope([kind |-> "proppatch", status |-> 207,
                                        cred |-> cred, project |-> p,
                                        name |-> None], e)
               /\ UNCHANGED <<now, projects, tasks, deletions, meta, tx>>

NextBody == Tick \/ PutSized \/ ReportSized \/ PropPatchSized
SpecBody == Init /\ [][NextBody]_vars

\* every route, with PUT, REPORT and PROPPATCH as sized requests
NextFrame ==
    \/ Tick
    \/ Delete
    \/ Get
    \/ PropfindEntry
    \/ PropfindPrincipal
    \/ PropfindProjects
    \/ PropfindProject
    \/ PropfindTask
    \/ PutSized
    \/ ReportSized
    \/ PropPatchSized
SpecFrame == Init /\ [][NextFrame]_vars

(***************************************************************************)
(* caldav/ical.ts: the codec between the VTODO text and the task.  A text  *)
(* is followed by its properties PRIORITY, RRULE, DUE, DTSTART, STATUS,    *)
(* COMPLETED, PERCENT-COMPLETE, COLOR and DESCRIPTION; a colour is the     *)
(* sequence of its characters.                                             *)
(***************************************************************************)
\* how many texts and tasks a chain of decodings and encodings holds
MaxPasses == 4

\* mapPriorityToCaldav without the case for 4
mapPriorityToCaldav_No4(priority) ==
    IF priority = None \/ priority = Some(0) THEN None
    ELSE IF priority = Some(1) THEN Some(9)
    ELSE IF priority = Some(2) THEN Some(5)
    ELSE IF priority = Some(3) THEN Some(3)
    ELSE IF priority = Some(5) THEN Some(1)
    ELSE Some(0)

\* mapPriorityToCaldav: null for null and 0; 1 -> 9, 2 -> 5, 3 -> 3, 4 -> 2,
\* 5 -> 1, any other -> 0
mapPriorityToCaldav(priority) ==
    IF priority = None \/ priority = Some(0) THEN None
    ELSE IF priority = Some(1) THEN Some(9)
    ELSE IF priority = Some(2) THEN Some(5)
    ELSE IF priority = Some(3) THEN Some(3)
    ELSE IF priority = Some(4) THEN Some(2)
    ELSE IF priority = Some(5) THEN Some(1)
    ELSE Some(0)

\* parseVtodoPriority(Number(PRIORITY ?? 0)): null for 0; 1 -> 5, 2 -> 4,
\* 3 and 4 -> 3, 5 -> 2, any other -> 1
parseVtodoPriority(priority) ==
    LET n == IF priority = None THEN 0 ELSE The(priority) IN
    IF n = 0 THEN None
    ELSE IF n = 1 THEN Some(5)
    ELSE IF n = 2 THEN Some(4)
    ELSE IF n \in {3, 4} THEN Some(3)
    ELSE IF n = 5 THEN Some(2)
    ELSE Some(1)

\* the seconds of the units of an RRULE
UnitSeconds ==
    [WEEKLY |-> 604800, DAILY |-> 86400, HOURLY |-> 3600, MINUTELY |-> 60,
     SECONDLY |-> 1]

\* parseRrule: MONTHLY is mode month; WEEKLY .. SECONDLY are interval * unit
\* in mode default; no RRULE or any other FREQ is null, null
parseRrule(rrule) ==
    IF rrule = None THEN [repeatAfter |-> None, repeatMode |-> None]
    ELSE IF The(rrule).freq = "MONTHLY"
    THEN [repeatAfter |-> None, repeatMode |-> Some("month")]
    ELSE IF The(rrule).freq \in DOMAIN UnitSeconds
    THEN [repeatAfter |-> Some(The(rrule).interval
                                 * UnitSeconds[The(rrule).freq]),
          repeatMode |-> Some("default")]
    ELSE [repeatAfter |-> None, repeatMode |-> None]

\* the RRULE of a repeatAfter, with the first unit tried being the day
RruleOf_DailyFirst(repeatAfter) ==
    IF repeatAfter % 86400 = 0
    THEN [freq |-> "DAILY", interval |-> repeatAfter \div 86400]
    ELSE IF repeatAfter % 3600 = 0
    THEN [freq |-> "HOURLY", interval |-> repeatAfter \div 3600]
    ELSE IF repeatAfter % 60 = 0
    THEN [freq |-> "MINUTELY", interval |-> repeatAfter \div 60]
    ELSE [freq |-> "SECONDLY", interval |-> repeatAfter]

\* buildCalendarData, the RRULE of a positive repeatAfter: the first of
\* WEEKLY, DAILY, HOURLY, MINUTELY whose seconds divide it, else SECONDLY
RruleOf(repeatAfter) ==
    IF repeatAfter % 604800 = 0
    THEN [freq |-> "WEEKLY", interval |-> repeatAfter \div 604800]
    ELSE IF repeatAfter % 86400 = 0
    THEN [freq |-> "DAILY", interval |-> repeatAfter \div 86400]
    ELSE IF repeatAfter % 3600 = 0
    THEN [freq |-> "HOURLY", interval |-> repeatAfter \div 3600]
    ELSE IF repeatAfter % 60 = 0
    THEN [freq |-> "MINUTELY", interval |-> repeatAfter \div 60]
    ELSE [freq |-> "SECONDLY", interval |-> repeatAfter]

\* value.slice(0, n)
Slice(chars, n) == SubSeq(chars, 1, IF Len(chars) < n THEN Len(chars) ELSE n)

\* getColor: value.replace(/^#/, "").slice(0, 6), null without a colour
getColor(color) ==
    IF color = None THEN None
    ELSE LET value == The(color)
             bare == IF Len(value) > 0 /\ value[1] = "#" THEN Tail(value)
                     ELSE value
         IN Some(Slice(bare, 6))

\* completedAt taken from COMPLETED whatever the STATUS
CompletedAt_AnyStatus(status, completed) == completed

\* completedAt: status === "COMPLETED" ? completedAt : null
CompletedAt(status, completed) ==
    IF status = "COMPLETED" THEN completed ELSE None

\* parseVtodo on a text with a VTODO: the fields of the task input
parseVtodoFields(ics) ==
    LET repeat == parseRrule(ics.rrule) IN
    [form |-> "task",
     description |-> IF ics.description = None THEN ""
                     ELSE The(ics.description),
     dueAt |-> ics.due,
     startAt |-> ics.dtstart,
     completedAt |-> CompletedAt(ics.status, ics.completed),
     priority |-> parseVtodoPriority(ics.priority),
     percentDone |-> IF ics.percent = None THEN Some(0) ELSE ics.percent,
     color |-> getColor(ics.color),
     repeatAfter |-> repeat.repeatAfter,
     repeatMode |-> repeat.repeatMode]

\* buildCalendarData: the properties of the VTODO it writes
buildCalendarData(task) ==
    [form |-> "ics",
     description |-> IF task.description = "" THEN None
                     ELSE Some(task.description),
     due |-> task.dueAt,
     dtstart |-> task.startAt,
     status |-> IF task.completedAt # None THEN "COMPLETED" ELSE "NEEDS-ACTION",
     completed |-> task.completedAt,
     rrule |-> IF task.repeatMode = Some("month")
                  /\ (task.dueAt # None \/ task.startAt # None)
               THEN Some([freq |-> "MONTHLY", interval |-> 1])
               ELSE IF task.repeatAfter # None /\ The(task.repeatAfter) > 0
               THEN Some(RruleOf(The(task.repeatAfter)))
               ELSE None,
     priority |-> mapPriorityToCaldav(task.priority),
     percent |-> task.percentDone,
     color |-> IF task.color = None \/ task.color = Some(<<>>) THEN None
               ELSE Some(Slice(<<"#">> \o The(task.color), 7))]

\* the VTODO texts a client may send
Rrules ==
    {None} \cup {Some([freq |-> f, interval |-> 1]) :
                    f \in {"YEARLY", "MONTHLY", "WEEKLY", "DAILY", "MINUTELY"}}
           \cup {Some([freq |-> "DAILY", interval |-> 2]),
                 Some([freq |-> "DAILY", interval |-> 7]),
                 Some([freq |-> "HOURLY", interval |-> 24]),
                 Some([freq |-> "SECONDLY", interval |-> 60]),
                 Some([freq |-> "SECONDLY", interval |-> 90])}
Colors ==
    {None, Some(<<>>), Some(<<"r", "e", "d">>),
     Some(<<"#", "a", "b", "c", "d", "e", "f", "0", "1">>)}
VtodoTexts ==
    [form : {"ics"},
     description : {None, Some("d1")},
     due : {None, Some(2000)},
     dtstart : {None},
     status : {"", "NEEDS-ACTION", "IN-PROCESS", "COMPLETED"},
     completed : {None, Some(1000)},
     rrule : Rrules,
     priority : {None} \cup {Some(n) : n \in 0..9},
     percent : {None, Some(50)},
     color : Colors]

\* the tasks the store may hold
RepeatAfters ==
    {None} \cup {Some(n) : n \in {1, 60, 90, 3600, 7200, 86400, 172800,
                                   604800, 1209600, 691200}}
StoredTasks ==
    [form : {"task"},
     description : {""},
     dueAt : {None, Some(2000)},
     startAt : {None},
     completedAt : {None},
     priority : {None} \cup {Some(n) : n \in 1..5},
     percentDone : {None},
     color : {None},
     repeatAfter : RepeatAfters,
     repeatMode : {Some("default")}]

\* a chain starts with a text or with a task
InitCodec ==
    /\ now = StartTime
    /\ projects = [p \in Projects |->
                     [ownerId |-> OwnerOf[p], name |-> "n0",
                      ctag |-> CtagOf(StartTime), updatedAt |-> StartTime]]
    /\ tasks = {}
    /\ deletions = {}
    /\ meta = [labels |-> {}, task_labels |-> {}, task_reminders |-> {},
               task_relations |-> {}]
    /\ tx = [c \in Conns |-> [phase |-> "idle"]]
    /\ \E first \in VtodoTexts \cup StoredTasks :
          resp = [kind |-> "codec", chain |-> <<first>>]

\* parseVtodo applied to the text the chain ends with
CodecDecode ==
    /\ resp.kind = "codec"
    /\ Len(resp.chain) < MaxPasses
    /\ resp.chain[Len(resp.chain)].form = "ics"
    /\ resp' = [resp EXCEPT !.chain =
                  Append(@, parseVtodoFields(resp.chain[Len(resp.chain)]))]
    /\ UNCHANGED <<now, projects, tasks, deletions, meta, tx>>

\* buildCalendarData applied to the task the chain ends with
CodecEncode ==
    /\ resp.kind = "codec"
    /\ Len(resp.chain) < MaxPasses
    /\ resp.chain[Len(resp.chain)].form = "task"
    /\ resp' = [resp EXCEPT !.chain =
                  Append(@, buildCalendarData(resp.chain[Len(resp.chain)]))]
    /\ UNCHANGED <<now, projects, tasks, deletions, meta, tx>>

NextCodec == CodecDecode \/ CodecEncode
SpecCodec == InitCodec /\ [][NextCodec]_vars

(***************************************************************************)
(* auth/caldav-token.ts: authenticateBasicUser over the tables             *)
(* caldav_users and caldav_tokens.  A row of caldav_tokens is followed by  *)
(* its user, the password it was issued for and whether revoked_at is set; *)
(* token_hash matches a password when it was made from that password.      *)
(***************************************************************************)
\* caldav_users: username is unique
UserRows == {[id |-> "alice", username |-> "al"], [id |-> "bob", username |-> "bo"]}
UserNames == {"al", "bo", "zz"}
Passwords == {"s1", "s2"}

TokenRows == [userId : Users, secret : Passwords, revoked : BOOLEAN]

\* how many rows caldav_tokens holds at most
MaxTokens == 3
TokenTables == {t \in SUBSET TokenRows : Cardinality(t) <= MaxTokens}

\* the query without `and t.revoked_at is null`
authenticateBasicUser_AnyToken(tokens, username, password) ==
    LET rows == {u \in UserRows :
                   /\ u.username = username
                   /\ \E t \in tokens : t.userId = u.id /\ t.secret = password}
    IN {u.id : u \in rows}

\* authenticateBasicUser, the join: the user with this username that has a
\* token with this token_hash and no revoked_at; null when no row
authenticateBasicUser(tokens, username, password) ==
    LET rows == {u \in UserRows :
                   /\ u.username = username
                   /\ \E t \in tokens :
                        t.userId = u.id /\ t.secret = password /\ ~t.revoked}
    IN {u.id : u \in rows}

\* authenticateBasicUser, the loop: the user row by username, null when none;
\* then its tokens with no revoked_at, the user on the first that
\* bcrypt.compare accepts, null when none does
authenticateBasicUserBcrypt(tokens, username, password) ==
    LET userResult == {u \in UserRows : u.username = username}
        tokenResult == {t \in tokens :
                          /\ \E u \in userResult : t.userId = u.id
                          /\ ~t.revoked}
    IN IF userResult = {} THEN None
       ELSE IF \E t \in tokenResult : t.secret = password
       THEN {u.id : u \in userResult}
       ELSE None

InitAuth ==
    /\ now = StartTime
    /\ projects = [p \in Projects |->
                     [ownerId |-> OwnerOf[p], name |-> "n0",
                      ctag |-> CtagOf(StartTime), updatedAt |-> StartTime]]
    /\ tasks = {}
    /\ deletions = {}
    /\ meta = [labels |-> {}, task_labels |-> {}, task_reminders |-> {},
               task_relations |-> {}]
    /\ tx = [c \in Conns |-> [phase |-> "idle"]]
    /\ \E t \in TokenTables : resp = [kind |-> "tokens", tokens |-> t]

\* requireAuth on a parsed Basic credential; the response records the
\* credential and what each form of authenticateBasicUser returns
Authenticate ==
    /\ resp.kind \in {"tokens", "auth"}
    /\ \E username \in UserNames, password \in Passwords :
          resp' = [kind |-> "auth", tokens |-> resp.tokens,
                   username |-> username, password |-> password,
                   user |-> authenticateBasicUser(resp.tokens, username,
                                                  password),
                   userBcrypt |-> authenticateBasicUserBcrypt(resp.tokens,
                                                              username,
                                                              password)]
    /\ UNCHANGED <<now, projects, tasks, deletions, meta, tx>>

NextAuth == Authenticate
SpecAuth == InitAuth /\ [][NextAuth]_vars

(***************************************************************************)
(* Properties                                                              *)
(***************************************************************************)
IsSyncResponse(r) == r.kind = "report" /\ r.status = 207 /\ r.mode = "sync"
IsMultigetResponse(r) == r.kind = "report" /\ r.status = 207 /\ r.mode = "multiget"
LiveTasks(p) == {t \in tasks : t.projectId = p}
Tombstones(p) == {d \in deletions : d.projectId = p}

\* C1: a sync-collection REPORT that presents sync-token T returns exactly
\* the live tasks with updatedAt > T and, as 410 Gone, exactly the tombstones
\* with deletedAt > T.
C1_SyncDeltaExact ==
    (IsSyncResponse(resp) /\ resp.token # None /\ The(resp.token).value # None)
    => LET T == The(The(resp.token).value) IN
       /\ resp.tasks = {t.uid : t \in {u \in LiveTasks(resp.project) : u.updatedAt > T}}
       /\ resp.gone = {d.uid : d \in {e \in Tombstones(resp.project) : e.deletedAt > T}}

\* C2: a sync-collection REPORT with no sync-token returns every live task of
\* the project and no tombstone.
C2_InitialSyncNoTombstones ==
    (IsSyncResponse(resp) /\ resp.token = None)
    => /\ resp.tasks = {t.uid : t \in LiveTasks(resp.project)}
       /\ resp.gone = {}

\* C3: when a sync-collection REPORT returned sync-token S and nothing was
\* mutated since, the next sync-collection REPORT on the project that
\* presents S returns no task, no 410 and the sync-token S again.
C3_ReplayIsEmpty ==
    [][(/\ IsSyncResponse(resp)
        /\ IsSyncResponse(resp')
        /\ resp'.project = resp.project
        /\ resp'.token # None
        /\ The(resp'.token).value = resp.syncToken
        /\ UNCHANGED <<projects, tasks, deletions>>)
       => (/\ resp'.tasks = {}
           /\ resp'.gone = {}
           /\ resp'.syncToken = resp.syncToken)]_vars

\* C4: the sync-token of every sync-collection REPORT is the greatest of the
\* project's updatedAt, the updatedAt of all its live tasks and the deletedAt
\* of all its tombstones, whatever delta the response carries.
C4_SyncTokenIsProjectMax ==
    IsSyncResponse(resp)
    => LET stamps == {projects[resp.project].updatedAt}
                       \cup {t.updatedAt : t \in LiveTasks(resp.project)}
                       \cup {d.deletedAt : d \in Tombstones(resp.project)}
       IN \E m \in stamps : /\ resp.syncToken = {m}
                            /\ \A x \in stamps : x <= m

\* a REPORT whose delta is empty and whose sync-token is the updatedAt of a
\* live task that the delta left out, later than the project's own updatedAt
C4_Witness ==
    /\ IsSyncResponse(resp)
    /\ resp.tasks = {}
    /\ \E t \in LiveTasks(resp.project) :
          /\ resp.syncToken = {t.updatedAt}
          /\ t.updatedAt > projects[resp.project].updatedAt

\* C5: once task U of project P is deleted and not PUT again, a
\* calendar-multiget REPORT on P with the one href naming U yields exactly one
\* sub-response, with status 410.
C5_DeletedIsGone ==
    (/\ IsMultigetResponse(resp)
     /\ Len(resp.hrefs) = 1
     /\ resp.hrefs[1] # ""
     /\ \E d \in Tombstones(resp.project) : d.uid = resp.hrefs[1]
     /\ ~\E t \in LiveTasks(resp.project) : t.uid = resp.hrefs[1])
    => /\ Len(resp.responses) = 1
       /\ resp.responses[1].status = 410

\* C6: a well-formed authenticated PUT on a project of the caller answers 201
\* and creates the task when no task (project, uid) exists, and answers 200
\* and updates that task in place when one exists.
C6_PutUpserts ==
    [][(/\ now' = now
        /\ resp'.kind = "put"
        /\ resp'.cred \in Users
        /\ resp'.status \notin {400, 404})
       => LET old == {t \in tasks : t.projectId = resp'.project /\ t.uid = resp'.uid}
              new == {t \in tasks' : t.projectId = resp'.project /\ t.uid = resp'.uid}
          IN /\ new # {}
             /\ resp'.etag = The(new).updatedAt
             /\ IF old = {} THEN resp'.status = 201
                ELSE resp'.status = 200 /\ The(new).id = The(old).id]_vars

\* C7: a successful PUT on an existing task leaves it an updatedAt, and so an
\* ETag, strictly greater than it had.
C7_EtagStrictlyIncreases ==
    [][(/\ now' = now
        /\ resp'.kind = "put"
        /\ resp'.status = 200)
       => \A t \in tasks : (t.projectId = resp'.project /\ t.uid = resp'.uid)
             => /\ resp'.etag > t.updatedAt
                /\ \A u \in tasks' : u.id = t.id => u.updatedAt > t.updatedAt]_vars

\* C8: every commit that creates, updates or deletes a task of a project, or
\* inserts a tombstone, leaves the project's ctag strictly greater.
C8_CtagStrictlyIncreases ==
    [][\A p \in Projects :
          (LiveTasks(p) # {t \in tasks' : t.projectId = p}
             \/ Tombstones(p) # {d \in deletions' : d.projectId = p})
          => projects'[p].ctag > projects[p].ctag]_vars

\* C9: over any interleaving of mutating transactions a project's ctag never
\* decreases.
C9_CtagNeverDecreases ==
    [][\A p \in Projects : projects'[p].ctag >= projects[p].ctag]_vars

\* C10: PROPFIND /dav/projects with Depth 0 returns the home-set entry alone;
\* with Depth 1 the home-set entry, then exactly one entry for each project
\* the authenticated user owns and none for any other project.
C10_ProjectListing ==
    (resp.kind = "projects" /\ resp.status = 207)
    => LET e == resp.entries
           owned == {p \in Projects : OwnerOf[p] = resp.user}
       IN /\ e[1] = [coll |-> "home-set", id |-> 0]
          /\ \A i \in 2..Len(e) : e[i].coll = "project"
          /\ resp.depth = "0" => Len(e) = 1
          /\ resp.depth = "1" =>
                /\ Len(e) = 1 + Cardinality(owned)
                /\ \A p \in owned : \E i \in 2..Len(e) : e[i].id = p
                /\ \A i \in 2..Len(e) : e[i].id \in owned

\* a Depth 1 listing for a user who owns a project while another user owns
\* another
C10_Witness ==
    /\ resp.kind = "projects"
    /\ resp.status = 207
    /\ resp.depth = "1"
    /\ Len(resp.entries) = 2
    /\ \E p \in Projects : OwnerOf[p] # resp.user

\* C11: on every protected route and verb a request whose Basic credential
\* is missing, malformed or matches no token gets 401 with the
\* WWW-Authenticate: Basic challenge, and the response carries nothing of the
\* project or task the URL names.
C11_UnauthorizedChallenge ==
    (resp.kind # "none" /\ resp.cred \notin Users)
    => /\ resp.status = 401
       /\ resp.challenge
       /\ DOMAIN resp = {"kind", "status", "cred", "challenge"}

\* the verbs of /dav/projects/:projectId and /dav/projects/:projectId/:uid
ProjectRouteKinds == {"project", "report", "proppatch", "get", "task", "put", "delete"}

\* C12: an authenticated request on /dav/projects/:id or
\* /dav/projects/:id/:uid that names a project which is absent or not owned
\* by the caller gets 404, whatever the verb.
C12_ForeignProjectIs404 ==
    (/\ resp.kind \in ProjectRouteKinds
     /\ resp.cred \in Users
     /\ getProjectById(resp.cred, resp.project) = None)
    => resp.status = 404

C14_NoLiveAndGone ==
    IsSyncResponse(resp)
    => /\ resp.tasks \cap resp.gone = {}
       /\ \A t \in LiveTasks(resp.project) : t.uid \notin resp.gone

\* C15: a calendar-multiget REPORT answers every href of the body with exactly
\* one sub-response: 200 when a live task of the project has the uid of the
\* href, 410 when none has and the uid is tombstoned, 404 otherwise.
C15_MultigetResolution ==
    IsMultigetResponse(resp)
    => /\ Len(resp.responses) = Len(resp.hrefs)
       /\ \A i \in 1..Len(resp.hrefs) :
            LET uid == resp.hrefs[i]
                live == \E t \in LiveTasks(resp.project) : t.uid = uid
                gone == \E d \in Tombstones(resp.project) : d.uid = uid
            IN i \in DOMAIN resp.responses
               => resp.responses[i].status
                    = IF live THEN 200 ELSE IF gone THEN 410 ELSE 404

\* C16: a PUT that updates a task with a VTODO without DESCRIPTION leaves the
\* stored description as it was.
C16_DescriptionPreserved ==
    [][(/\ now' = now
        /\ resp'.kind = "put"
        /\ resp'.status = 200
        /\ resp'.body.description = None)
       => \A t \in tasks : \A u \in tasks' :
             u.id = t.id /\ t.projectId = resp'.project /\ t.uid = resp'.uid
             => u.description = t.description]_vars

\* C17: after a successful PUT the task has exactly the labels, reminders and
\* relations of the payload, and the children of other tasks are untouched.
C17_ChildrenReplaced ==
    [][(/\ now' = now
        /\ resp'.kind = "put"
        /\ resp'.status \in {200, 201})
       => /\ \E t \in tasks' :
               /\ t.projectId = resp'.project /\ t.uid = resp'.uid
               /\ LabelsOf(meta', t.id) = Range(resp'.body.labels)
               /\ RemindersOf(meta', t.id) = resp'.body.reminders
               /\ RelationsOf(meta', t.id) = resp'.body.relations
          /\ \A o \in tasks :
               (o.projectId # resp'.project \/ o.uid # resp'.uid)
               => /\ LabelsOf(meta', o.id) = LabelsOf(meta, o.id)
                  /\ RemindersOf(meta', o.id) = RemindersOf(meta, o.id)
                  /\ RelationsOf(meta', o.id) = RelationsOf(meta, o.id)]_vars

\* the only task there ever was had label l1, a reminder and relation u1, and
\* a PUT has left it with label l2, reminder r2 and relation u2 alone
C17_Witness ==
    /\ resp.kind = "put"
    /\ resp.status = 200
    /\ resp.body.labels = <<"l2">>
    /\ deletions = {}
    /\ \E l \in meta.labels : l.title = "l1"
    /\ \E t \in tasks :
         /\ tasks = {t}
         /\ LabelsOf(meta, t.id) = {"l2"}
         /\ RemindersOf(meta, t.id) = {"r2"}
         /\ RelationsOf(meta, t.id) = {"u2"}

\* the task as a reader returns it is, in every field the model follows, what
\* the PUT of this body stores
WholeFrom(task, body) ==
    /\ task.description = The(parseVtodo(body).description)
    /\ task.labels = Range(body.labels)
    /\ task.reminders = body.reminders
    /\ task.relations = body.relations

\* C18: the task a GET returns, description and label, reminder and relation
\* sets, is one version of the task as some PUT stored it, also when a PUT or
\* DELETE of the task runs at the same time.
C18_ReadsOneVersion ==
    (resp.kind = "get" /\ resp.status = 200)
    => \E body \in TxBodies : WholeFrom(resp.task, body)

\* C19: when a statement of a create, update or delete fails, the rows of all
\* tables (tasks, child rows, labels, tombstones, project ctag) are as they
\* were before the transaction wrote, for the failed request and for every
\* other connection.
C19_FailureRollsBack ==
    [][\A c \in Conns :
         (tx[c].phase = "tx" /\ tx'[c].phase = "idle" /\ resp'.status = 500)
         => /\ Committed' = Committed
            /\ Writers' = {} => Stored' = Committed]_vars

\* an update of the task with label l1 failed at its last statement, after
\* the row, the labels and the reminders were written, and the task is as
\* before
C19_Witness ==
    /\ resp.kind = "put"
    /\ resp.status = 500
    /\ resp.failedAt = 4
    /\ resp.body.labels = <<"l2">>
    /\ \A c \in Conns : tx[c].phase = "idle"
    /\ \E t \in tasks :
         /\ t.description = "d1"
         /\ LabelsOf(meta, t.id) = {"l1"}
         /\ RemindersOf(meta, t.id) = {"r1"}

\* C20: when a PUT on an existing task commits, the task every connection
\* then sees has the description and the label, reminder and relation sets of
\* that PUT's body, whatever other PUT on the task ran at the same time.
C20_LastWriterWinsWhole ==
    [][\A c \in Conns :
         (/\ tx[c].phase = "tx" /\ tx[c].op = "put" /\ tx[c].existing # None
          /\ tx'[c].phase = "idle" /\ resp'.status = 200)
         => \E t \in Committed'.tasks :
               /\ t.projectId = resp'.project /\ t.uid = resp'.uid
               /\ WholeFrom(Hydrate(Committed'.meta, t), resp'.body)]_vars

\* two PUTs with bodies that differ in everything ran at the same time on the
\* existing task, the other committed first, and this one has committed too
C20_Witness ==
    /\ resp.kind = "put"
    /\ resp.status = 200
    /\ "seen" \in DOMAIN resp
    /\ resp.body.description = Some("d2")
    /\ \E b \in resp.seen : b.description = Some("d1")
    /\ \A c \in Conns : tx[c].phase = "idle"

\* the Content-Length or the body as read exceeds 256 KiB
ExceedsLimit(e) ==
    \/ e.header = "bytes" /\ e.bytes > MAX_BODY_SIZE
    \/ e.bytes > MAX_BODY_SIZE

\* C21: a REPORT, PROPPATCH or PUT is answered 413 exactly when its
\* Content-Length or its body exceeds 256 KiB, and a request answered 413 has
\* changed nothing.
C21_BodyLimit ==
    [][("envelope" \in DOMAIN resp')
       => /\ resp'.status = 413 <=> ExceedsLimit(resp'.envelope)
          /\ resp'.status = 413
               => UNCHANGED <<projects, tasks, deletions, meta>>]_vars

TextsAt(chain) == {i \in 1..Len(chain) : chain[i].form = "ics"}
TasksAt(chain) == {i \in 1..Len(chain) : chain[i].form = "task"}

\* C23: decoding a text, encoding the result and decoding again gives, field
\* by field, what the first decoding gave.
C23_DecodeEncodeDecode ==
    resp.kind = "codec"
    => \A i \in TextsAt(resp.chain) :
          i + 3 <= Len(resp.chain) => resp.chain[i + 3] = resp.chain[i + 1]

\* C24: decoding follows the table 1 -> 5, 2 -> 4, 3 and 4 -> 3, 5 -> 2, other
\* non-zero -> 1, 0 or absent -> unset; encoding follows 1 -> 9, 2 -> 5, 3 -> 3,
\* 4 -> 2, 5 -> 1; a wire priority 1..9 decoded and encoded again is the
\* canonical value of its bucket, an internal 1..5 encoded and decoded is
\* itself.
DecodeTable == <<5, 4, 3, 3, 2, 1, 1, 1, 1>>
EncodeTable == <<9, 5, 3, 2, 1>>
C24_PriorityTables ==
    resp.kind = "codec"
    => LET chain == resp.chain IN
       /\ \A i \in TextsAt(chain) :
            /\ i + 1 <= Len(chain)
                 => chain[i + 1].priority
                      = IF chain[i].priority \in {None, Some(0)} THEN None
                        ELSE Some(DecodeTable[The(chain[i].priority)])
            /\ (i + 2 <= Len(chain) /\ chain[i].priority \notin {None, Some(0)})
                 => chain[i + 2].priority
                      = Some(EncodeTable[DecodeTable[The(chain[i].priority)]])
       /\ \A i \in TasksAt(chain) :
            /\ (i + 1 <= Len(chain) /\ chain[i].priority # None)
                 => chain[i + 1].priority
                      = Some(EncodeTable[The(chain[i].priority)])
            /\ i + 2 <= Len(chain)
                 => chain[i + 2].priority = chain[i].priority

\* a text of priority 4 was decoded to 3, the bucket it shares with 3, and
\* encoded as 3
C24_Witness ==
    /\ resp.kind = "codec"
    /\ Len(resp.chain) = 3
    /\ resp.chain[1].form = "ics"
    /\ resp.chain[1].priority = Some(4)
    /\ resp.chain[2].priority = Some(3)
    /\ resp.chain[3].priority = Some(3)

\* C25: a positive repeatAfter in mode default is encoded as the RRULE of the
\* largest of WEEKLY, DAILY, HOURLY, MINUTELY whose seconds divide it, with
\* INTERVAL the quotient, or as SECONDLY with INTERVAL repeatAfter, and that
\* RRULE decodes to the same repeatAfter in mode default.
C25_RruleFolding ==
    resp.kind = "codec"
    => LET chain == resp.chain IN
       \A i \in TasksAt(chain) :
          (/\ chain[i].repeatAfter # None
           /\ chain[i].repeatMode = Some("default")
           /\ i + 1 <= Len(chain))
          => LET n == The(chain[i].repeatAfter)
                 rule == The(chain[i + 1].rrule)
                 fits == {f \in {"WEEKLY", "DAILY", "HOURLY", "MINUTELY"} :
                             n % UnitSeconds[f] = 0}
             IN /\ chain[i + 1].rrule # None
                /\ rule.freq \in DOMAIN UnitSeconds
                /\ rule.interval * UnitSeconds[rule.freq] = n
                /\ \A f \in fits : UnitSeconds[f] <= UnitSeconds[rule.freq]
                /\ fits = {} => rule.freq = "SECONDLY"
                /\ i + 2 <= Len(chain)
                     => /\ chain[i + 2].repeatAfter = Some(n)
                        /\ chain[i + 2].repeatMode = Some("default")

\* 1209600 seconds were encoded as FREQ=WEEKLY;INTERVAL=2 and decoded
C25_Witness ==
    /\ resp.kind = "codec"
    /\ Len(resp.chain) = 3
    /\ resp.chain[1].form = "task"
    /\ resp.chain[1].repeatAfter = Some(1209600)
    /\ resp.chain[2].rrule = Some([freq |-> "WEEKLY", interval |-> 2])
    /\ resp.chain[3].repeatAfter = Some(1209600)

C27_LabelsDeduplicated ==
    /\ \A l, k \in meta.labels :
          l.ownerId = k.ownerId /\ l.title = k.title => l.id = k.id
    /\ \A a, b \in meta.task_labels :
          \A l, k \in meta.labels :
             (/\ l.id = a.labelId /\ k.id = b.labelId
              /\ l.ownerId = k.ownerId /\ l.title = k.title)
             => a.labelId = b.labelId

\* C28: no two tasks have one uid, whatever their projects, and a project
\* and a uid name at most one task.
C28_UidGloballyUnique ==
    /\ \A t, u \in tasks : t.uid = u.uid => t = u
    /\ \A p \in Projects, uid \in Uids :
          Cardinality(getTaskByUid(tasks, p, uid)) <= 1

\* two PUTs of one new uid were open at once, into different projects; the
\* second to commit was answered 500 and the uid names the task of the first
C28_Witness ==
    /\ \A c \in Conns : tx[c].phase = "closed"
    /\ resp.kind = "put"
    /\ resp.status = 500
    /\ \E t \in tasks : t.uid = resp.uid /\ t.projectId # resp.project
    /\ Cardinality(tasks) = 1

\* C29: a REPORT on a project of the user is answered as a sync-collection
\* when its body contains "sync-collection", whatever else it contains;
\* otherwise as a multiget when it contains "calendar-multiget"; otherwise as
\* a calendar-query.  The response has a sync-token exactly in the first
\* case.
C29_ReportDispatch ==
    (resp.kind = "report" /\ resp.status = 207)
    => /\ resp.mode = (IF resp.body.sync THEN "sync"
                       ELSE IF resp.body.multiget THEN "multiget"
                       ELSE "query")
       /\ (resp.syncToken # None) <=> resp.body.sync
       /\ resp.mode = "sync" => "gone" \in DOMAIN resp
       /\ resp.mode = "multiget"
            => Len(resp.responses) <= Len(resp.body.hrefs)
       /\ resp.mode = "query"
            => resp.tasks
                 = {t.uid : t \in getTasksForProject(tasks, resp.project)}

\* a body with both "sync-collection" and "calendar-multiget" and an href
\* was answered as a sync-collection, with a sync-token
C29_Witness ==
    /\ resp.kind = "report"
    /\ resp.status = 207
    /\ resp.body.sync
    /\ resp.body.multiget
    /\ resp.body.hrefs # <<>>
    /\ resp.mode = "sync"
    /\ resp.syncToken # None
    /\ tasks # {}

\* whether the response is a calendar-query REPORT or a PROPFIND of depth 1
\* on a project, answered 207
IsListing(r) ==
    /\ r.kind \in {"report", "project"}
    /\ r.status = 207
    /\ r.kind = "report" => r.mode = "query"
    /\ r.kind = "project" => r.depth = "1"

\* C30: a calendar-query REPORT and a PROPFIND of depth 1 on a project list
\* the tasks of that project that exist, each once: every one of them, none
\* that was deleted and not put again, none of another project.
C30_ListingIsLiveTasks ==
    IsListing(resp)
    => /\ \A t \in tasks : t.projectId = resp.project => t.uid \in resp.tasks
       /\ \A uid \in resp.tasks :
             \E t \in tasks : t.projectId = resp.project /\ t.uid = uid
       /\ Cardinality(resp.tasks)
            = Cardinality({t \in tasks : t.projectId = resp.project})

\* alice's project is listed with its one task A, while its task a was
\* deleted and bob's project now holds a task a
C30_Witness ==
    /\ IsListing(resp)
    /\ resp.project = 1
    /\ resp.tasks = {"A"}
    /\ \E d \in deletions : d.projectId = 1 /\ d.uid = "a"
    /\ \E t \in tasks : t.projectId = 2 /\ t.uid = "a"

\* C31: a task in mode month is encoded with an RRULE of FREQ=MONTHLY,
\* whether or not it has a due or a start date.
C31_MonthlyAlwaysEmitted ==
    resp.kind = "codec"
    => \A i \in TasksAt(resp.chain) :
          (resp.chain[i].repeatMode = Some("month") /\ i + 1 <= Len(resp.chain))
          => /\ resp.chain[i + 1].rrule # None
             /\ The(resp.chain[i + 1].rrule).freq = "MONTHLY"

\* C32: decoding keeps COMPLETED only under STATUS:COMPLETED; encoding writes
\* STATUS:COMPLETED and COMPLETED for a task with a completion time, and
\* STATUS:NEEDS-ACTION without COMPLETED for any other.
C32_CompletionFollowsStatus ==
    resp.kind = "codec"
    => LET chain == resp.chain IN
       /\ \A i \in TextsAt(chain) :
            i + 1 <= Len(chain)
            => /\ chain[i].status = "COMPLETED"
                    => chain[i + 1].completedAt = chain[i].completed
               /\ chain[i].status # "COMPLETED"
                    => chain[i + 1].completedAt = None
       /\ \A i \in TasksAt(chain) :
            i + 1 <= Len(chain)
            => /\ chain[i].completedAt # None
                    => /\ chain[i + 1].status = "COMPLETED"
                       /\ chain[i + 1].completed = chain[i].completedAt
               /\ chain[i].completedAt = None
                    => /\ chain[i + 1].status = "NEEDS-ACTION"
                       /\ chain[i + 1].completed = None

\* a text with COMPLETED under STATUS:IN-PROCESS was decoded to a task with
\* no completion time and encoded as NEEDS-ACTION
C32_Witness ==
    /\ resp.kind = "codec"
    /\ Len(resp.chain) = 3
    /\ resp.chain[1].form = "ics"
    /\ resp.chain[1].status = "IN-PROCESS"
    /\ resp.chain[1].completed = Some(1000)
    /\ resp.chain[2].completedAt = None
    /\ resp.chain[3].status = "NEEDS-ACTION"
    /\ resp.chain[3].completed = None

\* C33: every uid put or deleted since the REPORT that returned sync-token S
\* is in the REPORT that presents S, as a task or as a 410.
C33_NoChangeLost ==
    [][(/\ resp.kind = "client"
        /\ resp.syncToken # None
        /\ resp'.step = "report"
        /\ UNCHANGED <<now, projects, tasks, deletions>>)
       => resp.changed \subseteq (resp'.tasks \cup resp'.gone)]_vars

\* C34: the sync-token of a sync-collection REPORT on a project is not less
\* than the sync-token of the REPORT before it, whatever was put or deleted
\* in between.
C34_SyncTokenNeverDecreases ==
    [][(/\ resp.kind = "client"
        /\ resp.syncToken # None
        /\ resp'.step = "report")
       => The(resp'.syncToken) >= The(resp.syncToken)]_vars

\* C36: a calendar-multiget REPORT resolves an href to a task exactly when a
\* GET by the same user on the path of the href is answered 200, and then to
\* the task the GET returns.
C36_MultigetAgreesWithGet ==
    [][(resp' # resp /\ IsMultigetResponse(resp'))
       => \A i \in DOMAIN resp'.responses :
             LET sub == resp'.responses[i]
                 get == TaskResponse("get", 200, resp'.cred, resp'.project,
                                     sub.href)
             IN /\ (sub.status = 200) <=> (get.status = 200)
                /\ sub.status = 200 => sub.uid = get.task.uid]_vars

\* what a user owns: the tasks of the user's projects, the user's labels and
\* the child rows of those tasks
OwnTasks(user) == {t \in tasks : OwnerOf[t.projectId] = user}
OwnMeta(user) ==
    LET ids == {t.id : t \in OwnTasks(user)} IN
    [labels |-> {l \in meta.labels : l.ownerId = user},
     task_labels |-> {r \in meta.task_labels : r.taskId \in ids},
     task_reminders |-> {r \in meta.task_reminders : r.taskId \in ids},
     task_relations |-> {r \in meta.task_relations : r.taskId \in ids}]

\* the response of a PUT served now on the given task and child tables
PutOutcome(rows, m, cred, p, uid, body) ==
    LET r == PutResolve(rows, cred, p, uid, body) IN
    IF r.status # 0 THEN PutRefusal(cred, p, uid, body, r)
    ELSE PutResponse(cred, p, uid, r.existing,
                     PutApply(rows, projects, m, cred, r.existing, r.input,
                              now, now))

\* C35: the response to a user's PUT is the one the same PUT gets when the
\* tables hold only what that user owns, and a request changes no task and
\* no project of another user.
C35_UsersIsolated ==
    [][/\ \A cred \in Users, p \in ProjectIds, uid \in Uids, body \in PutBodies :
            PutOutcome(tasks, meta, cred, p, uid, body)
              = PutOutcome(OwnTasks(cred), OwnMeta(cred), cred, p, uid, body)
       /\ now' = now
            => /\ \A t \in (tasks \ tasks') \cup (tasks' \ tasks) :
                    OwnerOf[t.projectId] = resp'.cred
               /\ \A q \in Projects :
                    projects'[q] # projects[q] => OwnerOf[q] = resp'.cred]_vars

\* the verbs that only read
ReadKinds ==
    {"get", "task", "entry", "principal", "projects", "project", "report"}

\* C37: a GET, PROPFIND or REPORT, and any request answered 401, 404, 400 or
\* 413, leaves the tasks, the child rows, the labels, the tombstones and the
\* projects (names and ctags) as they were, and with them the sync-token of
\* every project.
C37_RejectedAndReadsChangeNothing ==
    [][(/\ now' = now
        /\ resp'.kind # "none"
        /\ resp'.kind \in ReadKinds \/ resp'.status \in {401, 404, 400, 413})
       => /\ UNCHANGED <<projects, tasks, deletions, meta>>
          /\ \A p \in Projects :
                SyncToken(projects'[p], {t \in tasks' : t.projectId = p},
                          {d \in deletions' : d.projectId = p})
                  = SyncToken(projects[p], LiveTasks(p), Tombstones(p))]_vars

\* a PUT on the existing task a of project 1 was refused as too large and
\* the task is there as it was
C37_Witness ==
    /\ resp.kind = "put"
    /\ resp.status = 413
    /\ resp.cred = "alice"
    /\ getTaskByUid(tasks, 1, "a") # None
    /\ deletions # {}
====
